---------------------------- MODULE Spec2Model ----------------------------
(***************************************************************************)
(* Model of the PySpeed web container (src/src/cpp): the static file       *)
(* handler with its memory-mapped LRU cache (static_handler.cpp) and the   *)
(* HTTP server's sessions (http_server.cpp, python_bridge_old.cpp).        *)
(*                                                                         *)
(* Strings are sequences of one-character strings, so that prefix tests,   *)
(* concatenation and find() work on characters as they do in the source.   *)
(***************************************************************************)
EXTENDS Integers, Sequences, FiniteSets, TLC

(***************************************************************************)
(* Strings                                                                 *)
(***************************************************************************)

\* std::string::find(needle) != npos
Contains(str, needle) ==
    \E i \in 1..(Len(str) - Len(needle) + 1) :
        SubSeq(str, i, i + Len(needle) - 1) = needle

\* pyspeed_compat::starts_with; also str.substr(0, prefix.length()) == prefix
starts_with(str, prefix) ==
    /\ Len(str) >= Len(prefix)
    /\ SubSeq(str, 1, Len(prefix)) = prefix

\* pyspeed_compat::ends_with
ends_with(str, suffix) ==
    /\ Len(str) >= Len(suffix)
    /\ SubSeq(str, Len(str) - Len(suffix) + 1, Len(str)) = suffix

\* position of the last character of str that is in chars, 0 for npos
FindLastOf(str, chars) ==
    LET hits == { i \in 1..Len(str) : str[i] \in chars }
    IN  IF hits = {} THEN 0 ELSE CHOOSE i \in hits : \A j \in hits : j <= i

\* pyspeed_compat::get_filename: what follows the last '/' or '\'
get_filename(path) ==
    LET pos == FindLastOf(path, {"/", "\\"})
    IN  IF pos = 0 THEN path ELSE SubSeq(path, pos + 1, Len(path))

(***************************************************************************)
(* std::filesystem::path::lexically_normal on a POSIX build.               *)
(* A path is a root directory (a leading run of '/'), filenames separated  *)
(* by runs of '/', and possibly a trailing separator.                      *)
(***************************************************************************)

RECURSIVE SplitNames(_, _, _)
\* the filenames of str from position i on; cur is the filename being read
SplitNames(str, i, cur) ==
    IF i > Len(str)
    THEN IF cur = <<>> THEN <<>> ELSE <<cur>>
    ELSE IF str[i] = "/"
         THEN (IF cur = <<>> THEN <<>> ELSE <<cur>>) \o SplitNames(str, i + 1, <<>>)
         ELSE SplitNames(str, i + 1, Append(cur, str[i]))

PathNames(str) == SplitNames(str, 1, <<>>)

HasRootDirectory(str) == Len(str) > 0 /\ str[1] = "/"

HasTrailingSeparator(str) == Len(str) > 0 /\ str[Len(str)] = "/"

Dot == <<".">>
DotDot == <<".", ".">>

RECURSIVE NormalNames(_, _, _, _)
\* steps 4 to 6 of [fs.path.generic]: drop "." ; drop "name/.." ; drop ".."
\* directly under the root directory. stack is what is kept so far.
NormalNames(names, i, stack, rooted) ==
    IF i > Len(names) THEN stack
    ELSE LET n == names[i] IN
         IF n = Dot THEN NormalNames(names, i + 1, stack, rooted)
         ELSE IF n = DotDot
              THEN IF Len(stack) > 0 /\ stack[Len(stack)] # DotDot
                   THEN NormalNames(names, i + 1, SubSeq(stack, 1, Len(stack) - 1), rooted)
                   ELSE IF rooted
                        THEN NormalNames(names, i + 1, stack, rooted)
                        ELSE NormalNames(names, i + 1, Append(stack, n), rooted)
              ELSE NormalNames(names, i + 1, Append(stack, n), rooted)

RECURSIVE JoinNames(_)
JoinNames(names) ==
    IF names = <<>> THEN <<>>
    ELSE IF Len(names) = 1 THEN names[1]
         ELSE names[1] \o <<"/">> \o JoinNames(Tail(names))

\* static_utils::normalize_path
normalize_path(path) ==
    IF path = <<>> THEN <<>>
    ELSE IF PathNames(path) = <<>> THEN path   \* only a root directory: libstdc++ returns it as it is
    ELSE LET names   == PathNames(path)
             rooted  == HasRootDirectory(path)
             kept    == NormalNames(names, 1, <<>>, rooted)
             lastRaw == IF names = <<>> THEN <<>> ELSE names[Len(names)]
             \* a separator is left at the end when the path ended with one, or
             \* when its last filename was a "." or a ".." that was removed
             sepLeft == \/ HasTrailingSeparator(path)
                        \/ lastRaw = Dot
                        \/ (lastRaw = DotDot /\ (kept = <<>> \/ kept[Len(kept)] # DotDot))
             \* step 7: no trailing separator after a final ".."
             trail   == /\ sepLeft
                        /\ kept # <<>>
                        /\ kept[Len(kept)] # DotDot
             body    == (IF rooted THEN <<"/">> ELSE <<>>) \o JoinNames(kept)
                        \o (IF trail THEN <<"/">> ELSE <<>>)
         IN  IF body = <<>> THEN Dot ELSE body       \* step 8

\* static_utils::is_safe_path
is_safe_path(path) ==
    /\ ~Contains(path, DotDot)
    /\ ~Contains(path, <<"/", "/">>)


(***************************************************************************)
(* Bounds of the model                                                     *)
(***************************************************************************)

\* longest request path enumerated character by character
MaxPathLen == 7
\* serve_file calls in one behaviour of the cache specification
MaxServes == 3
\* CacheEntry objects that exist at one time (live, or still pointed to)
MaxEntries == 5
\* deletions and modifications of files on disk in one behaviour
MaxFsChanges == 1

(***************************************************************************)
(* The static file handler: configuration, routes, files on disk           *)
(***************************************************************************)

VARIABLES
    scenario,             \* which inputs a behaviour draws: "path" or "cache"
    config_,              \* StaticFileHandler::config_
    routes_,              \* StaticFileHandler::routes_: URL path -> local directory
    fs,                   \* the regular files on disk: path -> [size, mtime]
    cache_,               \* StaticFileHandler::cache_: file path -> CacheEntry (by id)
    entries,              \* the CacheEntry objects, by id
    current_cache_size_,  \* StaticFileHandler::current_cache_size_
    cache_mutex_,         \* StaticFileHandler::cache_mutex_
    stats_,               \* StaticFileHandler::stats_
    now,                  \* std::chrono::steady_clock
    pc,                   \* where each thread is inside serve_file
    req,                  \* the arguments of each thread's serve_file call
    loc,                  \* the locals of each thread's serve_file call
    result,               \* the ServeResult each thread's call returned
    budget                \* serve_file calls and file changes that may still happen

staticVars == <<scenario, config_, routes_, fs, cache_, entries, current_cache_size_,
                cache_mutex_, stats_, now, pc, req, loc, result, budget>>

\* The HTTP server's configuration, one session, the server's counters, and
\* the server's acceptor, reactor and worker threads
VARIABLES static_paths_, request_handler_, python_handler_, session, server_stats,
          server

sessionVars == <<static_paths_, request_handler_, python_handler_, session, server_stats,
                 server>>

\* The request parser, the route matcher, the response builder and the JSON
\* accelerator: the route table, the call being made and what it returned
VARIABLES parser_routes_,  \* RouteParser::routes_
          call,            \* the function called and its arguments
          ret,             \* what the call returned, or the exception it threw
          parser_stats_    \* JsonParser::stats_

libVars == <<parser_routes_, call, ret, parser_stats_>>

Threads == {1, 2}

MiB == 1024 * 1024

\* size_t arithmetic wraps; the width is cut to 30 bits, which TLC's integers hold
SizeMod == 2 ^ 30
WrapSize(x) == x % SizeMod

Route_s    == <<"/", "s">>
Root_s     == <<".", "/", "s">>
Root_a     == <<".", "/", "a">>
Root_b     == <<".", "/", "b">>
Route_ss   == <<"/", "s", "/", "s">>
Route_static == <<"/", "s", "t", "a", "t", "i", "c">>
Root_static  == <<".", "/", "s", "t", "a", "t", "i", "c">>

File_sa    == <<"s", "/", "a">>
File_sb    == <<"s", "/", "b">>
File_sjs   == <<"s", "/", "c", ".", "j", "s">>
File_big   == <<"s", "/", "d", ".", "j", "s">>
File_empty == <<"s", "/", "e">>
File_as    == <<"a", "/", "s">>
File_bs    == <<"b", "/", "s">>
File_s     == <<"s">>                       \* in the working directory, outside ./a
File_passwd == <<"e", "t", "c", "/", "p", "a", "s", "s", "w", "d">>
File_hidden == <<"s", "/", ".", "a">>
File_index == <<"s", "/", "i", "n", "d", "e", "x", ".", "h", "t", "m", "l">>

\* the files that may be on disk, each with the size it has there
DiskSize ==
    (File_sa :> MiB) @@ (File_sb :> 2 * MiB) @@ (File_sjs :> 2048) @@
    (File_big :> 3 * MiB) @@ (File_empty :> 0) @@ (File_passwd :> 2048) @@
    (File_hidden :> 2) @@ (File_index :> 2) @@
    (File_as :> MiB) @@ (File_bs :> MiB) @@ (File_s :> MiB)

DiskPaths == DOMAIN DiskSize

\* StaticFileHandler::Config, with the defaults of static_handler.hpp for the
\* lists and the flags; the two size limits are drawn small
Config(root, cacheMb, fileMb) ==
    [ root_directory        |-> root,
      max_cache_size_mb     |-> cacheMb,
      max_file_size_mb      |-> fileMb,
      enable_compression    |-> TRUE,
      enable_range_requests |-> TRUE,
      compression_threshold |-> 1024,
      compression_types     |-> {"text/html", "text/css", "text/javascript",
                                 "application/javascript", "application/json", "text/xml"},
      forbidden_extensions  |-> { <<".", "t", "m", "p">>, <<".", "b", "a", "k">>,
                                  <<".", "l", "o", "g">> },
      hidden_prefixes       |-> { <<".">>, <<"_">> } ]

\* the file limit below the cache limit, as in the defaults (100 and 512), and above it
Configs == { Config(Root_s, 3, 2), Config(Root_s, 1, 2) }

\* the route tables of the path scenario: a route /s to ./a, that route with a
\* longer one /s/s to ./b, the route /static to ./static, and no route
RouteTables ==
    { (Route_s :> Root_a),
      (Route_s :> Root_a) @@ (Route_ss :> Root_b),
      (Route_static :> Root_static),
      << >> }

\* pyspeed_compat::file_exists: stat() finds a regular file
file_exists(disk, path) == path \in DOMAIN disk

\* pyspeed_compat::get_file_size
get_file_size(disk, path) == IF path \in DOMAIN disk THEN disk[path].size ELSE 0

\* pyspeed_compat::get_last_write_time, for a file that exists
get_last_write_time(disk, path) == disk[path].mtime


(***************************************************************************)
(* serve_file: path resolution and the checks before the cache             *)
(***************************************************************************)

\* the routes whose URL path is a prefix of the request path and can win the
\* comparison route_path.length() > longest_match.length()
MatchingRoutes(routes, request_path) ==
    { r \in DOMAIN routes : starts_with(request_path, r) /\ Len(r) > 0 }

\* the loop of resolve_file_path: the longest matching route, "" when none matches
LongestMatch(routes, request_path) ==
    LET m == MatchingRoutes(routes, request_path)
    IN  IF m = {} THEN <<>> ELSE CHOOSE r \in m : \A q \in m : Len(q) <= Len(r)

\* the local root resolve_file_path joins the relative path with
LocalRoot(cfg, routes, request_path) ==
    LET lm == LongestMatch(routes, request_path)
    IN  IF lm = <<>> THEN cfg.root_directory ELSE routes[lm]

\* request_path.substr(longest_match.length()) throws std::out_of_range when the
\* request path is shorter than the match: only "" against the default "/"
ResolveThrows(routes, request_path) ==
    LongestMatch(routes, request_path) = <<>> /\ Len(request_path) < 1

\* local_root + relative_path, before it is normalized
JoinedPath(cfg, routes, request_path) ==
    LET lm       == LongestMatch(routes, request_path)
        skip     == IF lm = <<>> THEN 1 ELSE Len(lm)
        rel      == SubSeq(request_path, skip + 1, Len(request_path))
        relative == IF rel = <<>> \/ rel = <<"/">>
                    THEN <<"/", "i", "n", "d", "e", "x", ".", "h", "t", "m", "l">>
                    ELSE rel
    IN  LocalRoot(cfg, routes, request_path) \o relative

\* StaticFileHandler::resolve_file_path; "" for a path the guard rejects
resolve_file_path(cfg, routes, request_path) ==
    LET file_path == normalize_path(JoinedPath(cfg, routes, request_path))
    IN  IF ~is_safe_path(file_path) THEN <<>> ELSE file_path

\* StaticFileHandler::is_file_forbidden
is_file_forbidden(cfg, file_path) ==
    \/ \E ext \in cfg.forbidden_extensions : ends_with(file_path, ext)
    \/ \E prefix \in cfg.hidden_prefixes : starts_with(get_filename(file_path), prefix)

\* pyspeed_compat::get_extension
get_extension(path) ==
    LET filename == get_filename(path)
        pos      == FindLastOf(filename, {"."})
    IN  IF pos = 0 THEN <<>> ELSE SubSeq(filename, pos, Len(filename))

\* the entries of mime_types_ that the model's files use
mime_types_ ==
    (<<".", "h", "t", "m", "l">> :> "text/html") @@
    (<<".", "j", "s">> :> "application/javascript")

\* StaticFileHandler::get_mime_type (the model's extensions are lower case)
get_mime_type(file_path) ==
    LET extension == get_extension(file_path)
    IN  IF extension \in DOMAIN mime_types_ THEN mime_types_[extension]
        ELSE "application/octet-stream"

\* StaticFileHandler::generate_etag: std::hash of the path and the mtime, taken
\* to be free of collisions
generate_etag(file_path, last_modified) == <<file_path, last_modified>>

\* StaticFileHandler::should_compress; content_type.find(type) on the values
\* of mime_types_ and compression_types is equality
should_compress(cfg, content_type, file_size) ==
    /\ cfg.enable_compression
    /\ file_size >= cfg.compression_threshold
    /\ content_type \in cfg.compression_types


(***************************************************************************)
(* Range header. The header value is held in parsed form: whether it       *)
(* starts with "bytes=", whether a '-' follows, and the text before and    *)
(* after the dash: a number, Empty, or NotANumber.                         *)
(***************************************************************************)

Empty == 0 - 1
NotANumber == 0 - 2

NoRange == [present |-> FALSE]
\* a Range header value "bytes=<start>-<end>": whether it starts with "bytes=",
\* whether a '-' follows, and what stands before and after the first '-': a
\* number, nothing (Empty) or text that does not start with a number
\* (NotANumber). trailing says that other characters follow the digits of a
\* number ("bytes=0-1x", "bytes=0-1,5-9").
RangeHeader(a, b) ==
    [present |-> TRUE, bytes |-> TRUE, dash |-> TRUE, start |-> a, end |-> b,
     trailing |-> FALSE]
RangeHeaderTrailing(a, b) == [RangeHeader(a, b) EXCEPT !.trailing = TRUE]
RangeHeaderOtherUnit == [RangeHeader(0, 0) EXCEPT !.bytes = FALSE]
RangeHeaderNoDash == [RangeHeader(0, 0) EXCEPT !.dash = FALSE]

InvalidRange == [start |-> 0, end |-> 0, is_valid |-> FALSE]

\* StaticFileHandler::parse_range_header. std::stoull converts the leading
\* digits and ignores what follows them, so trailing is not looked at.
parse_range_header(h, file_size) ==
    IF ~h.bytes \/ ~h.dash THEN InvalidRange
    ELSE IF h.start = Empty /\ h.end = Empty THEN InvalidRange
    ELSE IF h.start = NotANumber \/ h.end = NotANumber THEN InvalidRange  \* std::stoull throws
    ELSE LET start == IF h.start = Empty
                      THEN (IF file_size > h.end THEN file_size - h.end ELSE 0)
                      ELSE h.start
             end   == IF h.start = Empty \/ h.end = Empty
                      THEN WrapSize(file_size - 1)
                      ELSE h.end
         IN  [start |-> start, end |-> end,
              is_valid |-> start < file_size /\ end < file_size /\ start <= end]

(***************************************************************************)
(* Cache entries and the index                                             *)
(***************************************************************************)

EntryIds == 1..MaxEntries
NoEntry == 0

\* a slot that holds no CacheEntry; its mapping, if it had one, is unmapped
FreeSlot == [alive |-> FALSE, mapped |-> FALSE]

\* the CacheEntry serve_file makes on a miss (access_count and is_compressed
\* are written and never read, and are left out)
NewEntry(file_path, etag, last_modified, file_size) ==
    [ alive         |-> TRUE,
      file_path     |-> file_path,
      content_type  |-> get_mime_type(file_path),
      etag          |-> etag,
      last_modified |-> last_modified,
      file_size     |-> file_size,
      mapped        |-> FALSE,
      mapped_size   |-> 0,
      last_accessed |-> 0,
      compressed    |-> FALSE,
      compressions  |-> 0 ]

\* the entries the index holds a shared_ptr to
Indexed(cache) == { cache[p] : p \in DOMAIN cache }

\* the entries a thread's locals hold a shared_ptr to
HeldBy(locs) == { locs[t].cached_entry : t \in DOMAIN locs } \cup
                { locs[t].entry : t \in DOMAIN locs }

\* ~CacheEntry runs when the last shared_ptr goes: unmap_file
Reap(ents, cache, locs) ==
    [ e \in EntryIds |->
        IF ents[e].alive /\ e \notin Indexed(cache) /\ e \notin HeldBy(locs)
        THEN FreeSlot ELSE ents[e] ]

\* CacheEntry::is_valid
is_valid(ents, disk, e) == ents[e].mapped /\ file_exists(disk, ents[e].file_path)

\* character codes, for operator< on std::string
Ord(c) ==
    CASE c = "." -> 46 [] c = "/" -> 47
      [] c = "a" -> 97 [] c = "b" -> 98 [] c = "c" -> 99 [] c = "d" -> 100
      [] c = "e" -> 101 [] c = "h" -> 104 [] c = "i" -> 105 [] c = "j" -> 106
      [] c = "l" -> 108 [] c = "m" -> 109 [] c = "n" -> 110 [] c = "p" -> 112
      [] c = "s" -> 115 [] c = "t" -> 116 [] c = "w" -> 119 [] c = "x" -> 120
      [] OTHER -> 0

RECURSIVE StrLess(_, _)
StrLess(a, b) ==
    IF b = <<>> THEN FALSE
    ELSE IF a = <<>> THEN TRUE
    ELSE IF Ord(a[1]) # Ord(b[1]) THEN Ord(a[1]) < Ord(b[1])
    ELSE StrLess(Tail(a), Tail(b))

\* operator< on the pairs (last_accessed, path) that evict_lru_entries sorts
LruLess(ents, cache, p, q) ==
    \/ ents[cache[p]].last_accessed < ents[cache[q]].last_accessed
    \/ /\ ents[cache[p]].last_accessed = ents[cache[q]].last_accessed
       /\ StrLess(p, q)

RECURSIVE LruOrder(_, _, _)
\* std::sort of the index's paths by (last_accessed, path)
LruOrder(ents, cache, paths) ==
    IF paths = {} THEN <<>>
    ELSE LET first == CHOOSE p \in paths : \A q \in paths \ {p} : LruLess(ents, cache, p, q)
         IN  <<first>> \o LruOrder(ents, cache, paths \ {first})

RECURSIVE EvictLoop(_, _, _, _, _, _)
\* the loop of evict_lru_entries that erases entries[i..]; yields the index
\* and current_cache_size_ it leaves
EvictLoop(ents, order, i, cache, size, freed_needed) ==
    IF i > Len(order) THEN [cache |-> cache, size |-> size]
    ELSE LET path  == order[i]
             fsz   == ents[cache[path]].file_size
             freed == freed_needed.freed + fsz
             c2    == [p \in (DOMAIN cache) \ {path} |-> cache[p]]
             s2    == WrapSize(size - fsz)
         IN  IF freed >= freed_needed.needed
             THEN [cache |-> c2, size |-> s2]
             ELSE EvictLoop(ents, order, i + 1, c2, s2,
                            [freed |-> freed, needed |-> freed_needed.needed])

\* an eviction that erases the least recently used entry and stops
evict_lru_entries_OnlyFirst(ents, cache, size, bytes_needed) ==
    EvictLoop(ents, LruOrder(ents, cache, DOMAIN cache), 1, cache, size,
              [freed |-> 0, needed |-> 0])

\* StaticFileHandler::evict_lru_entries
evict_lru_entries(ents, cache, size, bytes_needed) ==
    EvictLoop(ents, LruOrder(ents, cache, DOMAIN cache), 1, cache, size,
              [freed |-> 0, needed |-> bytes_needed])

\* StaticFileHandler::cache_file, between taking and releasing the lock
cache_file(cfg, ents, cache, size, file_path, e) ==
    LET max_cache_bytes == cfg.max_cache_size_mb * 1024 * 1024
        after == IF WrapSize(size + ents[e].file_size) > max_cache_bytes
                 THEN evict_lru_entries(ents, cache, size, ents[e].file_size)
                 ELSE [cache |-> cache, size |-> size]
    IN  [cache |-> (file_path :> e) @@ after.cache,
         size  |-> WrapSize(after.size + ents[e].file_size)]


(***************************************************************************)
(* serve_file, step by step. A step is what a thread does between two      *)
(* points where another thread can be seen to act: taking a lock, and      *)
(* compressing outside the lock.                                           *)
(***************************************************************************)

NoEtag == <<>>
NoTime == 0 - 1

NoHeaders ==
    [if_none_match |-> NoEtag, if_modified_since |-> NoTime, range |-> NoRange,
     accept_gzip |-> FALSE]

\* what a cache_file call did to the index: whether current_cache_size_ plus
\* the size of the new entry was over max_cache_bytes, that size, the entries
\* that evict_lru_entries erased and those it left
NoEvict == [short |-> FALSE, needed |-> 0, size |-> 0, gone |-> {}, kept |-> {}]

EmptyLoc ==
    [file_path |-> <<>>, last_modified |-> 0, file_size |-> 0, etag |-> NoEtag,
     cached_entry |-> NoEntry, entry |-> NoEntry, statted |-> <<>>,
     evict |-> NoEvict]

NullData == [kind |-> "null", entry |-> NoEntry, offset |-> 0]
MappedData(e, off) == [kind |-> "mapping", entry |-> e, offset |-> off]
StringData == [kind |-> "string_data", entry |-> NoEntry, offset |-> 0]
\* result.string_data copied from compressed_data while another thread assigns it
TornData == [kind |-> "torn", entry |-> NoEntry, offset |-> 0]

\* the size of compress_gzip's output for size bytes of input: the 18 bytes of
\* the gzip wrapper and a deflate stream taken to be half the input
GzipLen(size) == 18 + (size \div 2)

\* a default-constructed ServeResult; charset_suffix says that "; charset=utf-8"
\* was appended to content_type
DefaultResult ==
    [status |-> "SUCCESS", content_type |-> "", charset_suffix |-> FALSE,
     etag |-> NoEtag, last_modified |-> 0,
     content_length |-> 0, data |-> NullData, is_partial_content |-> FALSE,
     range_start |-> 0, range_end |-> 0, total_size |-> 0]

Status(st) == [DefaultResult EXCEPT !.status = st]

ZeroStats ==
    [files_served |-> 0, bytes_served |-> 0, cache_hits |-> 0, cache_misses |-> 0,
     files_compressed |-> 0, range_requests |-> 0, not_modified_responses |-> 0]

Bump(st, field) == [st EXCEPT ![field] = @ + 1]

\* the statistics block at the end of serve_file (total_serve_time_us, a
\* wall-clock duration, is left out)
ServedStats(st, res) ==
    [st EXCEPT !.files_served = @ + 1, !.bytes_served = @ + res.content_length]

ActiveThreads == IF scenario \in {"path", "range"} THEN {1} ELSE Threads

PathAlphabet == {"/", ".", "s"}

Req_sa   == <<"/", "s", "/", "a">>
Req_sb   == <<"/", "s", "/", "b">>
Req_sjs  == <<"/", "s", "/", "c", ".", "j", "s">>
Req_big  == <<"/", "s", "/", "d", ".", "j", "s">>
Req_empty == <<"/", "s", "/", "e">>

\* the numbers a Range header names, around the 2048 bytes of File_sjs
RangeNumbers == {0, 1, 2047, 2048}

\* the Range header values a behaviour draws from
RangeHeaders ==
    LET parts == RangeNumbers \cup {Empty, NotANumber}
    IN  { RangeHeader(a, b) : a \in parts, b \in parts }
        \cup { RangeHeaderTrailing(a, b) : a \in {0}, b \in {1, 2048} }
        \cup { RangeHeaderOtherUnit, RangeHeaderNoDash }
Req_passwd == <<"/", "s", "t", "a", "t", "i", "c", "/", ".", ".", "/",
                "e", "t", "c", "/", "p", "a", "s", "s", "w", "d">>

\* the request paths a behaviour draws from
RequestPaths ==
    CASE scenario = "path" ->
            UNION { [1..n -> PathAlphabet] : n \in 0..MaxPathLen } \cup {Req_passwd}
      [] scenario = "cache" -> {Req_sa, Req_sb}
      [] scenario = "evict" -> {Req_sa, Req_sb, Req_sjs}
      [] scenario = "gzip" -> {Req_sjs, Req_big}
      [] scenario = "stale" -> {Req_sa}
      [] scenario = "reval" -> {Req_sa, Req_sb}
      [] scenario = "range" -> {Req_sjs, Req_empty}
      [] OTHER -> {}

\* the request headers a behaviour draws from
HeaderSets(file_path, last_modified) ==
    CASE scenario = "path" -> {NoHeaders}
      [] scenario = "cache" -> {NoHeaders}
      [] scenario = "evict" -> {NoHeaders}
      [] scenario = "gzip" ->
            {NoHeaders, [NoHeaders EXCEPT !.accept_gzip = TRUE]}
      [] scenario = "stale" -> {NoHeaders}
      [] scenario = "reval" ->
            \* no validator, the ETag a serve of this file returns, an older one
            {NoHeaders,
             [NoHeaders EXCEPT !.if_none_match = generate_etag(file_path, last_modified)],
             [NoHeaders EXCEPT !.if_none_match = generate_etag(file_path, last_modified - 1)]}
      [] scenario = "range" ->
            {NoHeaders} \cup { [NoHeaders EXCEPT !.range = h] : h \in RangeHeaders }
      [] OTHER -> {}

\* the files the environment deletes or rewrites
ChangingFiles ==
    CASE scenario = "cache" -> {File_sa}
      [] scenario = "stale" -> {File_sa}
      [] OTHER -> {}

\* static_utils::parse_http_date of a header that holds the time t
parse_http_date(t) == t

\* the shared_ptr locals of thread t go out of scope and serve_file returns res
Return(t, res, statted, ents, cache) ==
    LET locs == [loc EXCEPT ![t] = [EmptyLoc EXCEPT !.statted = statted]]
    IN  /\ pc' = [pc EXCEPT ![t] = "returned"]
        /\ result' = [result EXCEPT ![t] = res]
        /\ loc' = locs
        /\ entries' = Reap(ents, cache, locs)

\* serve_file up to the cache lookup (static_handler.cpp 149-200)
ServeBegin(t) ==
    /\ UNCHANGED <<sessionVars, libVars>>
    /\ t \in ActiveThreads
    /\ pc[t] = "idle"
    /\ budget.serves > 0
    /\ budget' = [budget EXCEPT !.serves = @ - 1]
    /\ \E request_path \in RequestPaths :
        LET file_path == IF ResolveThrows(routes_, request_path) THEN <<>>
                         ELSE resolve_file_path(config_, routes_, request_path)
            exists    == file_exists(fs, file_path)
            mtime     == IF exists THEN get_last_write_time(fs, file_path) ELSE 0
        IN \E headers \in HeaderSets(file_path, mtime) :
            /\ req' = [req EXCEPT ![t] = [path |-> request_path, headers |-> headers]]
            /\ UNCHANGED <<scenario, config_, routes_, fs, cache_, current_cache_size_,
                           cache_mutex_, now>>
            /\ IF ResolveThrows(routes_, request_path)
               THEN \* std::out_of_range, caught: the statistics block runs
                    /\ Return(t, Status("INTERNAL_ERROR"), <<>>, entries, cache_)
                    /\ stats_' = ServedStats(stats_, Status("INTERNAL_ERROR"))
               ELSE IF file_path = <<>>
               THEN /\ Return(t, Status("NOT_FOUND"), <<>>, entries, cache_)
                    /\ UNCHANGED stats_
               ELSE IF is_file_forbidden(config_, file_path)
               THEN /\ Return(t, Status("FORBIDDEN"), <<>>, entries, cache_)
                    /\ UNCHANGED stats_
               ELSE IF ~exists
               THEN /\ Return(t, Status("NOT_FOUND"), <<file_path>>, entries, cache_)
                    /\ UNCHANGED stats_
               ELSE LET etag == generate_etag(file_path, mtime)
                        notModified ==
                            \/ headers.if_none_match = etag
                            \/ /\ headers.if_modified_since # NoTime
                               /\ mtime <= parse_http_date(headers.if_modified_since)
                    IN  IF notModified
                        THEN /\ Return(t, [Status("NOT_MODIFIED") EXCEPT
                                              !.etag = etag, !.last_modified = mtime],
                                       <<file_path>>, entries, cache_)
                             /\ stats_' = Bump(stats_, "not_modified_responses")
                        ELSE /\ pc' = [pc EXCEPT ![t] = "get_cached_file"]
                             /\ loc' = [loc EXCEPT ![t] =
                                   [EmptyLoc EXCEPT !.file_path = file_path,
                                                    !.last_modified = mtime,
                                                    !.file_size = get_file_size(fs, file_path),
                                                    !.etag = etag,
                                                    !.statted = <<file_path>>]]
                             /\ UNCHANGED <<result, entries, stats_>>


\* std::shared_mutex::unlock_shared
UnlockShared(m) == [m EXCEPT !.readers = IF @ > 0 THEN @ - 1 ELSE 0]

\* get_cached_file: std::shared_lock lock(cache_mutex_)
GetCachedLock(t) ==
    /\ UNCHANGED <<sessionVars, libVars>>
    /\ pc[t] = "get_cached_file"
    /\ cache_mutex_.writer = 0
    /\ cache_mutex_' = [cache_mutex_ EXCEPT !.readers = @ + 1]
    /\ pc' = [pc EXCEPT ![t] = "find"]
    /\ UNCHANGED <<scenario, config_, routes_, fs, cache_, entries, current_cache_size_,
                   stats_, now, req, loc, result, budget>>

\* get_cached_file under the shared lock: find, is_valid, and either the
\* return (which releases the lock) or lock.~shared_lock() on the stale path
GetCachedFind(t) ==
    /\ UNCHANGED <<sessionVars, libVars>>
    /\ pc[t] = "find"
    /\ cache_mutex_' = UnlockShared(cache_mutex_)
    /\ LET file_path == loc[t].file_path IN
       IF file_path \notin DOMAIN cache_
       THEN /\ pc' = [pc EXCEPT ![t] = "load"]
            /\ UNCHANGED <<loc, stats_>>
       ELSE IF is_valid(entries, fs, cache_[file_path])
       THEN /\ pc' = [pc EXCEPT ![t] = "respond"]
            /\ loc' = [loc EXCEPT ![t].cached_entry = cache_[file_path]]
            /\ stats_' = Bump(stats_, "cache_hits")
       ELSE /\ pc' = [pc EXCEPT ![t] = "stale"]
            /\ loc' = [loc EXCEPT ![t].entry = cache_[file_path]]
            /\ UNCHANGED stats_
    /\ UNCHANGED <<scenario, config_, routes_, fs, cache_, entries, current_cache_size_,
                   now, req, result, budget>>

\* get_cached_file, stale path: std::unique_lock write_lock(cache_mutex_)
StaleLock(t) ==
    /\ UNCHANGED <<sessionVars, libVars>>
    /\ pc[t] = "stale"
    /\ cache_mutex_.writer = 0
    /\ cache_mutex_.readers = 0
    /\ cache_mutex_' = [cache_mutex_ EXCEPT !.writer = t]
    /\ pc' = [pc EXCEPT ![t] = "erase"]
    /\ UNCHANGED <<scenario, config_, routes_, fs, cache_, entries, current_cache_size_,
                   stats_, now, req, loc, result, budget>>

\* get_cached_file, stale path under the exclusive lock: erase, subtract, and
\* the end of the else block, where write_lock is released
StaleErase(t) ==
    /\ UNCHANGED <<sessionVars, libVars>>
    /\ pc[t] = "erase"
    /\ LET file_path == loc[t].file_path
           cache2    == [p \in (DOMAIN cache_) \ {file_path} |-> cache_[p]]
           locs      == [loc EXCEPT ![t].entry = NoEntry]
       IN  /\ cache_' = cache2
           /\ current_cache_size_' =
                  WrapSize(current_cache_size_ - entries[loc[t].entry].file_size)
           /\ loc' = locs
           /\ entries' = Reap(entries, cache2, locs)
    /\ cache_mutex_' = [cache_mutex_ EXCEPT !.writer = 0]
    /\ pc' = [pc EXCEPT ![t] = "stale_return"]
    /\ UNCHANGED <<scenario, config_, routes_, fs, stats_, now, req, result, budget>>

\* get_cached_file, stale path: return nullptr. lock, whose destructor already
\* ran at lock.~shared_lock(), is destroyed a second time: undefined
\* behaviour, which either leaves the mutex alone or calls unlock_shared once
\* more and so releases a shared hold that is not this thread's.
StaleReturn(t) ==
    /\ UNCHANGED <<sessionVars, libVars>>
    /\ pc[t] = "stale_return"
    /\ \E again \in BOOLEAN :
          cache_mutex_' = IF again THEN UnlockShared(cache_mutex_) ELSE cache_mutex_
    /\ pc' = [pc EXCEPT ![t] = "load"]
    /\ UNCHANGED <<scenario, config_, routes_, fs, cache_, entries, current_cache_size_,
                   stats_, now, req, loc, result, budget>>

\* the entry ids no CacheEntry and no returned result uses
FreeIds ==
    { e \in EntryIds : /\ ~entries[e].alive
                       /\ \A t \in Threads : result[t].data.entry # e }

\* serve_file on a miss (206-224): make the entry and, for a file within
\* max_file_size_mb, map it. open() fails for a file that is gone, and mmap()
\* fails for length 0.
LoadEntry(t) ==
    /\ UNCHANGED <<sessionVars, libVars>>
    /\ pc[t] = "load"
    /\ FreeIds # {}
    /\ LET e         == CHOOSE x \in FreeIds : \A y \in FreeIds : x <= y
           file_path == loc[t].file_path
           fresh     == NewEntry(file_path, loc[t].etag, loc[t].last_modified,
                                 loc[t].file_size)
           mapsOk    == file_exists(fs, file_path) /\ get_file_size(fs, file_path) > 0
           mapped    == [fresh EXCEPT !.mapped = TRUE,
                                      !.mapped_size = get_file_size(fs, file_path)]
       IN  IF loc[t].file_size <= config_.max_file_size_mb * 1024 * 1024
           THEN IF mapsOk
                THEN /\ entries' = [entries EXCEPT ![e] = mapped]
                     /\ loc' = [loc EXCEPT ![t].cached_entry = e]
                     /\ pc' = [pc EXCEPT ![t] = "cache_file"]
                     /\ UNCHANGED <<result, stats_>>
                ELSE /\ Return(t, Status("INTERNAL_ERROR"), loc[t].statted, entries, cache_)
                     /\ UNCHANGED stats_
           ELSE /\ entries' = [entries EXCEPT ![e] = fresh]
                /\ loc' = [loc EXCEPT ![t].cached_entry = e]
                /\ pc' = [pc EXCEPT ![t] = "respond"]
                /\ stats_' = Bump(stats_, "cache_misses")
                /\ UNCHANGED result
    /\ UNCHANGED <<scenario, config_, routes_, fs, cache_, current_cache_size_,
                   cache_mutex_, now, req, budget>>

\* cache_file: std::unique_lock lock(cache_mutex_)
CacheFileLock(t) ==
    /\ UNCHANGED <<sessionVars, libVars>>
    /\ pc[t] = "cache_file"
    /\ cache_mutex_.writer = 0
    /\ cache_mutex_.readers = 0
    /\ cache_mutex_' = [cache_mutex_ EXCEPT !.writer = t]
    /\ pc' = [pc EXCEPT ![t] = "insert"]
    /\ UNCHANGED <<scenario, config_, routes_, fs, cache_, entries, current_cache_size_,
                   stats_, now, req, loc, result, budget>>

\* cache_file under the exclusive lock, its return, and cache_misses
CacheFileInsert(t) ==
    /\ UNCHANGED <<sessionVars, libVars>>
    /\ pc[t] = "insert"
    /\ LET after == cache_file(config_, entries, cache_, current_cache_size_,
                               loc[t].file_path, loc[t].cached_entry)
           k     == entries[loc[t].cached_entry].file_size
           short == WrapSize(current_cache_size_ + k)
                        > config_.max_cache_size_mb * 1024 * 1024
           left  == IF short
                    THEN DOMAIN evict_lru_entries(entries, cache_, current_cache_size_,
                                                  k).cache
                    ELSE DOMAIN cache_
           seen(paths) == { [path |-> p,
                             last_accessed |-> entries[cache_[p]].last_accessed,
                             file_size |-> entries[cache_[p]].file_size] : p \in paths }
       IN  /\ cache_' = after.cache
           /\ current_cache_size_' = after.size
           /\ entries' = Reap(entries, after.cache, loc)
           /\ loc' = [loc EXCEPT ![t].evict =
                         [short  |-> short,
                          needed |-> k,
                          size   |-> current_cache_size_,
                          gone   |-> seen((DOMAIN cache_) \ left),
                          kept   |-> seen(left)]]
    /\ cache_mutex_' = [cache_mutex_ EXCEPT !.writer = 0]
    /\ stats_' = Bump(stats_, "cache_misses")
    /\ pc' = [pc EXCEPT ![t] = "respond"]
    /\ UNCHANGED <<scenario, config_, routes_, fs, now, req, result, budget>>


\* the end of serve_file (275-293): last_accessed, SUCCESS, the statistics
\* block, and the return
FinishServe(t, res, ents, st) ==
    LET e     == loc[t].cached_entry
        ents2 == [ents EXCEPT ![e].last_accessed = now]
        done  == [res EXCEPT !.status = "SUCCESS"]
    IN  /\ now' = now + 1
        /\ Return(t, done, loc[t].statted, ents2, cache_)
        /\ stats_' = ServedStats(st, done)

\* serve_file after the entry is at hand (229-273): the Range header, the
\* response metadata, and the decision to compress
Respond(t) ==
    /\ UNCHANGED <<sessionVars, libVars>>
    /\ pc[t] = "respond"
    /\ LET e       == loc[t].cached_entry
           headers == req[t].headers
           ranged  == headers.range.present /\ config_.enable_range_requests
           range   == IF ranged THEN parse_range_header(headers.range, loc[t].file_size)
                      ELSE InvalidRange
           base    == IF entries[e].mapped THEN MappedData(e, 0) ELSE NullData
           res     == [DefaultResult EXCEPT
                          !.content_type = entries[e].content_type,
                          !.etag = loc[t].etag,
                          !.last_modified = loc[t].last_modified,
                          !.is_partial_content = ranged,
                          !.range_start = IF ranged THEN range.start ELSE 0,
                          !.range_end = IF ranged THEN range.end ELSE 0,
                          !.total_size = IF ranged THEN loc[t].file_size ELSE 0,
                          !.content_length = IF ranged THEN range.end - range.start + 1
                                             ELSE loc[t].file_size,
                          !.data = IF ranged /\ entries[e].mapped
                                   THEN MappedData(e, range.start) ELSE base]
           st      == IF ranged THEN Bump(stats_, "range_requests") ELSE stats_
           gzip    == /\ should_compress(config_, res.content_type, res.content_length)
                      /\ headers.accept_gzip
                      /\ ~res.is_partial_content
       IN  IF ranged /\ ~range.is_valid
           THEN /\ Return(t, Status("RANGE_NOT_SATISFIABLE"), loc[t].statted, entries, cache_)
                /\ UNCHANGED <<stats_, now>>
           ELSE IF gzip /\ ~entries[e].compressed
           THEN \* compress_content runs next, with no lock held
                /\ pc' = [pc EXCEPT ![t] = "compress"]
                /\ result' = [result EXCEPT ![t] = res]
                /\ stats_' = st
                /\ UNCHANGED <<loc, entries, now>>
           ELSE IF gzip
           THEN FinishServe(t, [res EXCEPT !.data = StringData,
                                           !.content_length = GzipLen(res.content_length),
                                           !.charset_suffix = TRUE],
                            entries, Bump(st, "files_compressed"))
           ELSE FinishServe(t, res, entries, st)
    /\ UNCHANGED <<scenario, config_, routes_, fs, cache_, current_cache_size_,
                   cache_mutex_, req, budget>>

\* serve_file 260-273 for an entry found without compressed_data: compress,
\* store on the entry, copy into the result. No lock is held: when another
\* thread is at the same point on the same entry, the two assignments and
\* copies of compressed_data race, and the copy may be torn. For a file that
\* was never mapped result.data is nullptr, deflate fails, compress_gzip
\* returns "" and the response stays uncompressed. compressions counts the
\* runs of compress_content that produced a buffer for the entry.
CompressStore(t) ==
    /\ UNCHANGED <<sessionVars, libVars>>
    /\ pc[t] = "compress"
    /\ LET e      == loc[t].cached_entry
           res    == result[t]
           racing == \E u \in Threads \ {t} :
                         pc[u] = "compress" /\ loc[u].cached_entry = e
       IN  IF res.data.kind = "null"
           THEN FinishServe(t, res, entries, stats_)
           ELSE \E data \in (IF racing THEN {StringData, TornData} ELSE {StringData}) :
                   FinishServe(t, [res EXCEPT !.data = data,
                                              !.content_length = GzipLen(res.content_length),
                                              !.charset_suffix = TRUE],
                               [entries EXCEPT ![e].compressed = TRUE,
                                               ![e].compressions = @ + 1],
                               Bump(stats_, "files_compressed"))
    /\ UNCHANGED <<scenario, config_, routes_, fs, cache_, current_cache_size_,
                   cache_mutex_, req, budget>>

\* the caller is done with the ServeResult (the response is written)
ReleaseResult(t) ==
    /\ UNCHANGED <<sessionVars, libVars>>
    /\ pc[t] = "returned"
    /\ pc' = [pc EXCEPT ![t] = "idle"]
    /\ result' = [result EXCEPT ![t] = DefaultResult]
    /\ req' = [req EXCEPT ![t] = [path |-> <<>>, headers |-> NoHeaders]]
    /\ loc' = [loc EXCEPT ![t] = EmptyLoc]
    /\ UNCHANGED <<scenario, config_, routes_, fs, cache_, entries, current_cache_size_,
                   cache_mutex_, stats_, now, budget>>

\* StaticFileHandler::clear_cache, called from any thread
ClearCache ==
    /\ UNCHANGED <<sessionVars, libVars>>
    /\ cache_mutex_.writer = 0
    /\ cache_mutex_.readers = 0
    /\ cache_ # << >>
    /\ cache_' = << >>
    /\ current_cache_size_' = 0
    /\ entries' = Reap(entries, << >>, loc)
    /\ UNCHANGED <<scenario, config_, routes_, fs, cache_mutex_, stats_, now, pc, req,
                   loc, result, budget>>

\* the environment removes a file
DeleteFile ==
    /\ UNCHANGED <<sessionVars, libVars>>
    /\ budget.fsChanges > 0
    /\ \E p \in DOMAIN fs \cap ChangingFiles :
          fs' = [q \in (DOMAIN fs) \ {p} |-> fs[q]]
    /\ budget' = [budget EXCEPT !.fsChanges = @ - 1]
    /\ UNCHANGED <<scenario, config_, routes_, cache_, entries, current_cache_size_,
                   cache_mutex_, stats_, now, pc, req, loc, result>>

\* the environment rewrites a file: a later mtime
ModifyFile ==
    /\ UNCHANGED <<sessionVars, libVars>>
    /\ budget.fsChanges > 0
    /\ \E p \in DOMAIN fs \cap ChangingFiles :
          fs' = [fs EXCEPT ![p].mtime = @ + 1]
    /\ budget' = [budget EXCEPT !.fsChanges = @ - 1]
    /\ UNCHANGED <<scenario, config_, routes_, cache_, entries, current_cache_size_,
                   cache_mutex_, stats_, now, pc, req, loc, result>>


(***************************************************************************)
(* Specifications of the static file handler                               *)
(***************************************************************************)

\* the handler after construction, with routes added and files on disk
InitStatic(sc, cfgs, tables, files, serves, fsChanges) ==
    /\ scenario = sc
    /\ config_ \in cfgs
    /\ routes_ \in tables
    /\ fs = [p \in files |-> [size |-> DiskSize[p], mtime |-> 0]]
    /\ cache_ = << >>
    /\ entries = [e \in EntryIds |-> FreeSlot]
    /\ current_cache_size_ = 0
    /\ cache_mutex_ = [readers |-> 0, writer |-> 0]
    /\ stats_ = ZeroStats
    /\ now = 1
    /\ pc = [t \in Threads |-> "idle"]
    /\ req = [t \in Threads |-> [path |-> <<>>, headers |-> NoHeaders]]
    /\ loc = [t \in Threads |-> EmptyLoc]
    /\ result = [t \in Threads |-> DefaultResult]
    /\ budget = [serves |-> serves, fsChanges |-> fsChanges]

\* HttpServer::Stats after construction
ZeroServerStats == [requests_processed |-> 0, errors |-> 0]

\* config_.threads: the worker threads start() creates
ServerThreads == 2

Workers == 1..ServerThreads

\* an HttpServer after construction.  running_ and threads_ (its size) are the
\* members; acceptor_ is closed, open or listening; stopped is ioc_.stopped();
\* pending counts the async_accept operations outstanding on acceptor_; ready
\* holds the error codes of the completed accepts whose on_accept is queued in
\* ioc_; worker is where each worker thread is: not created or returned from
\* ioc_.run() ("exited"), inside ioc_.run() between handlers ("run"), or in
\* on_accept after it loaded running_ as true ("do_accept").  stop is where
\* the thread calling stop() is.  armed and accepted count the async_accept
\* calls and the sessions made.
NewServer ==
    [running_ |-> FALSE, acceptor_ |-> "closed", stopped |-> FALSE, pending |-> 0,
     ready |-> << >>, threads_ |-> 0, worker |-> [w \in Workers |-> "exited"],
     stop |-> "none", armed |-> 0, accepted |-> 0]

\* the server a session belongs to: started, the next accept pending
StartedServer ==
    [NewServer EXCEPT !.running_ = TRUE, !.acceptor_ = "listening", !.pending = 1,
                      !.threads_ = ServerThreads,
                      !.worker = [w \in Workers |-> "run"],
                      !.armed = 2, !.accepted = 1]

\* no HTTP server in front of the handler
NoServer ==
    /\ static_paths_ = << >>
    /\ request_handler_ = "none"
    /\ python_handler_ = FALSE
    /\ session = [pc |-> "none"]
    /\ server_stats = ZeroServerStats
    /\ server = NewServer

\* no call into the parsers and builders
NoCall ==
    /\ parser_routes_ = << >>
    /\ call = [fn |-> "none"]
    /\ ret = [fn |-> "none"]
    /\ parser_stats_ = [documents_parsed |-> 0, parse_errors |-> 0]

vars == <<staticVars, sessionVars, libVars>>

\* one serve_file call on one thread, for every request path up to MaxPathLen
InitPath ==
    /\ NoServer
    /\ NoCall
    /\ InitStatic("path", {Config(Root_a, 3, 2)}, RouteTables,
               {File_as, File_bs, File_s, File_passwd}, 1, 0)

NextPath ==
    \E t \in Threads :
        \/ ServeBegin(t)
        \/ GetCachedLock(t)
        \/ GetCachedFind(t)
        \/ LoadEntry(t)
        \/ CacheFileLock(t)
        \/ CacheFileInsert(t)
        \/ Respond(t)
        \/ ReleaseResult(t)

SpecPath == InitPath /\ [][NextPath]_vars

\* threads calling serve_file and clear_cache concurrently while files change
InitCache ==
    /\ NoServer
    /\ NoCall
    /\ InitStatic("cache", Configs, {(Route_s :> Root_s)}, {File_sa, File_sb},
               MaxServes, MaxFsChanges)

NextCache ==
    \/ \E t \in Threads :
        \/ ServeBegin(t)
        \/ GetCachedLock(t)
        \/ GetCachedFind(t)
        \/ StaleLock(t)
        \/ StaleErase(t)
        \/ StaleReturn(t)
        \/ LoadEntry(t)
        \/ CacheFileLock(t)
        \/ CacheFileInsert(t)
        \/ Respond(t)
        \/ ReleaseResult(t)
    \/ ClearCache
    \/ DeleteFile

SpecCache == InitCache /\ [][NextCache]_vars

\* threads serving three files of different sizes through a cache that does
\* not hold them all
InitEvict ==
    /\ NoServer
    /\ NoCall
    /\ InitStatic("evict", {Config(Root_s, 3, 2), Config(Root_s, 2, 2)},
                  {(Route_s :> Root_s)}, {File_sa, File_sb, File_sjs}, MaxServes, 0)

NextEvict ==
    \E t \in Threads :
        \/ ServeBegin(t)
        \/ GetCachedLock(t)
        \/ GetCachedFind(t)
        \/ LoadEntry(t)
        \/ CacheFileLock(t)
        \/ CacheFileInsert(t)
        \/ Respond(t)
        \/ ReleaseResult(t)

SpecEvict == InitEvict /\ [][NextEvict]_vars

\* threads serving a compressible file, and one over max_file_size_mb, to
\* clients that accept gzip and clients that do not
InitGzip ==
    /\ NoServer
    /\ NoCall
    /\ InitStatic("gzip", {Config(Root_s, 3, 2)}, {(Route_s :> Root_s)},
                  {File_sjs, File_big}, MaxServes, 0)

NextGzip ==
    \E t \in Threads :
        \/ ServeBegin(t)
        \/ GetCachedLock(t)
        \/ GetCachedFind(t)
        \/ LoadEntry(t)
        \/ CacheFileLock(t)
        \/ CacheFileInsert(t)
        \/ Respond(t)
        \/ CompressStore(t)
        \/ ReleaseResult(t)

SpecGzip == InitGzip /\ [][NextGzip]_vars

\* threads serving one file that is rewritten or removed between the serves
InitStale ==
    /\ NoServer
    /\ NoCall
    /\ InitStatic("stale", {Config(Root_s, 3, 2)}, {(Route_s :> Root_s)},
                  {File_sa}, MaxServes, MaxFsChanges)

NextStale ==
    \/ \E t \in Threads :
            \/ ServeBegin(t)
            \/ GetCachedLock(t)
            \/ GetCachedFind(t)
            \/ StaleLock(t)
            \/ StaleErase(t)
            \/ StaleReturn(t)
            \/ LoadEntry(t)
            \/ CacheFileLock(t)
            \/ CacheFileInsert(t)
            \/ Respond(t)
            \/ ReleaseResult(t)
    \/ DeleteFile
    \/ ModifyFile

SpecStale == InitStale /\ [][NextStale]_vars

\* threads serving two files to clients that revalidate with If-None-Match
InitReval ==
    /\ NoServer
    /\ NoCall
    /\ InitStatic("reval", {Config(Root_s, 3, 2)}, {(Route_s :> Root_s)},
                  {File_sa, File_sb}, MaxServes, 0)

NextReval ==
    \E t \in Threads :
        \/ ServeBegin(t)
        \/ GetCachedLock(t)
        \/ GetCachedFind(t)
        \/ LoadEntry(t)
        \/ CacheFileLock(t)
        \/ CacheFileInsert(t)
        \/ Respond(t)
        \/ ReleaseResult(t)

SpecReval == InitReval /\ [][NextReval]_vars

\* one thread serving a file of 2048 bytes and an empty file to clients that
\* send a Range header
InitRange ==
    /\ NoServer
    /\ NoCall
    /\ InitStatic("range", {Config(Root_s, 3, 2)}, {(Route_s :> Root_s)},
                  {File_sjs, File_empty}, MaxServes, 0)

NextRange ==
    \E t \in Threads :
        \/ ServeBegin(t)
        \/ GetCachedLock(t)
        \/ GetCachedFind(t)
        \/ LoadEntry(t)
        \/ CacheFileLock(t)
        \/ CacheFileInsert(t)
        \/ Respond(t)
        \/ ReleaseResult(t)

SpecRange == InitRange /\ [][NextRange]_vars


(***************************************************************************)
(* Properties of the static file handler                                   *)
(***************************************************************************)

RECURSIVE SumSizes(_, _, _)
\* the sum of file_size over the entries the index holds under paths
SumSizes(ents, cache, paths) ==
    IF paths = {} THEN 0
    ELSE LET p == CHOOSE x \in paths : TRUE
         IN  ents[cache[p]].file_size + SumSizes(ents, cache, paths \ {p})

\* no serve_file call is in progress
Quiescent == \A t \in Threads : pc[t] \in {"idle", "returned"}

\* C1: in every quiescent state, current_cache_size_ is the sum of file_size
\* over the entries in the index.
C1_SizeIsSumOfEntries ==
    Quiescent => current_cache_size_ = SumSizes(entries, cache_, DOMAIN cache_)

\* C2: current_cache_size_ is at most max_cache_size_mb * 1024 * 1024 after
\* every mutation of the cache (each mutation is one step of the model).
C2_SizeWithinLimit ==
    current_cache_size_ <= config_.max_cache_size_mb * 1024 * 1024

\* the request path has a ".." segment
HasDotDotSegment(request_path) ==
    \E i \in 1..Len(PathNames(request_path)) : PathNames(request_path)[i] = DotDot

\* file_path lies under the directory root: the filenames of the normalized
\* root lead the filenames of file_path, which has no ".." left
InsideRoot(file_path, root) ==
    LET r == PathNames(normalize_path(root))
        rn == IF r = <<Dot>> THEN <<>> ELSE r
        f == PathNames(file_path)
    IN  /\ HasRootDirectory(file_path) = HasRootDirectory(root)
        /\ Len(f) >= Len(rn)
        /\ SubSeq(f, 1, Len(rn)) = rn
        /\ \A i \in 1..Len(f) : f[i] # DotDot

\* C3: for a request path with a ".." segment, serve_file returns NOT_FOUND or
\* FORBIDDEN, and every path it hands to stat() or open() lies under the local
\* root of the matched route (the default root when no route matches).
C3_DotDotNeverLeavesRoot ==
    \A t \in Threads :
        HasDotDotSegment(req[t].path) =>
            /\ pc[t] = "returned" => result[t].status \in {"NOT_FOUND", "FORBIDDEN"}
            /\ \A i \in 1..Len(loc[t].statted) :
                   InsideRoot(loc[t].statted[i], LocalRoot(config_, routes_, req[t].path))

\* the path-traversal guard of resolve_file_path rejects the request path
GuardRejects(request_path) ==
    /\ ~ResolveThrows(routes_, request_path)
    /\ ~is_safe_path(normalize_path(JoinedPath(config_, routes_, request_path)))

\* C4: when the guard rejects the resolved path, serve_file returns FORBIDDEN;
\* and /static/../etc/passwd with the route /static returns FORBIDDEN.
C4_GuardGivesForbidden ==
    \A t \in Threads :
        /\ pc[t] = "returned"
        /\ \/ GuardRejects(req[t].path)
           \/ (req[t].path = Req_passwd /\ Route_static \in DOMAIN routes_)
        => result[t].status = "FORBIDDEN"

\* C5: while a SUCCESS result that points into a mapping is in use, that
\* mapping is still mapped.
C5_ResultStaysMapped ==
    \A t \in Threads :
        /\ pc[t] = "returned"
        /\ result[t].status = "SUCCESS"
        /\ result[t].data.kind = "mapping"
        => entries[result[t].data.entry].mapped


(***************************************************************************)
(* HttpServer::Session: one connection                                     *)
(***************************************************************************)

\* requests read on one connection
MaxRequests == 3

\* HttpServer::Config::keep_alive_timeout, in ticks of the clock
keep_alive_timeout == 2

\* a tcp_stream whose expiry was never set
NoExpiry == 0 - 1

\* http::verb values the parser can deliver (PATCH and TRACE are verbs that
\* handle_request does not list)
Methods == {"GET", "HEAD", "POST", "PUT", "DELETE", "OPTIONS", "PATCH", "TRACE"}

Target_app == <<"/", "a">>
Target_sa == <<"/", "s", "/", "a">>
Target_sb == <<"/", "s", "/", "b">>
Target_up == <<"/", ".", ".", "/", "s">>
Target_dots == <<"/", "a", ".", ".", "b">>
Target_star == <<"*">>

\* request-targets the parser can deliver (it refuses an empty one itself)
Targets == {Target_app, Target_sa, Target_sb, Target_up, Target_dots, Target_star}

\* HTTP/1.0 and HTTP/1.1 requests with and without a Connection header
Requests ==
    [method : Methods, target : Targets, version : {10, 11},
     connection : {"none", "close", "keep-alive"}]

NoRequest == [method |-> "", target |-> <<>>, version |-> 11, connection |-> "none"]

NoResponse == [status |-> 0, version |-> 11, connection |-> "none"]

\* beast::http::message::keep_alive(): HTTP/1.1 unless "close", HTTP/1.0 only
\* with "keep-alive"
keep_alive(m) ==
    IF m.version = 11 THEN m.connection # "close" ELSE m.connection = "keep-alive"

\* beast::http::message::keep_alive(bool): the Connection header it leaves
set_keep_alive(version, value) ==
    IF version = 11
    THEN (IF value THEN "none" ELSE "close")
    ELSE (IF value THEN "keep-alive" ELSE "none")

\* beast::http::response::need_eof() for a response with Content-Length,
\* which prepare_payload sets on every string_body response
need_eof(res) == ~keep_alive(res)

\* Session::make_response
make_response(request, status) ==
    [status |-> status, version |-> request.version,
     connection |-> set_keep_alive(request.version, keep_alive(request))]

\* Session::make_error_response
make_error_response(status) ==
    [status |-> status, version |-> 11, connection |-> set_keep_alive(11, FALSE)]

\* ResponseBuilder::build_response: HTTP/1.1, the headers of ResponseData
\* copied with response.set, so a Connection header is the handler's own
build_response(data) ==
    [status |-> data.status_code, version |-> 11, connection |-> data.connection]

\* ResponseBuilder::build_error_response, through build_html_response: the
\* only custom header is content-type
build_error_response(status_code) ==
    build_response([status_code |-> status_code, connection |-> "none"])

\* what the Python handler does with a request: it returns a PyResponse, with
\* or without a Connection: close header, or raises
PyOutcomes ==
    { [kind |-> "response", status_code |-> 200, connection |-> "none"],
      [kind |-> "response", status_code |-> 404, connection |-> "close"],
      [kind |-> "raises", status_code |-> 0, connection |-> "none"] }

\* no response: the exception leaves the request handler
Escapes == [status |-> 0 - 1, version |-> 11, connection |-> "none"]

\* a request handler without the try block around the Python call
PySpeedHandler_NoCatch(python_handler, outcome) ==
    IF python_handler
    THEN IF outcome.kind = "response"
         THEN build_response(outcome)
         ELSE Escapes
    ELSE build_error_response(501)

\* the request handler PySpeedServer installs: the Python call and the
\* conversion of its result are inside try, catch (std::exception) answers 500
PySpeedHandler(python_handler, outcome) ==
    IF python_handler
    THEN IF outcome.kind = "response"
         THEN build_response(outcome)
         ELSE build_error_response(500)
    ELSE build_error_response(501)

\* Session::handle_dynamic_request: the handler calls the callback once,
\* before it returns, and the callback starts the write
handle_dynamic_request(handler, python_handler, outcome) ==
    IF handler = "pyspeed"
    THEN PySpeedHandler(python_handler, outcome)
    ELSE make_error_response(501)

\* Session::handle_static_request: the file under the root of the matching
\* prefix, read with std::ifstream; disk_error is std::filesystem throwing
handle_static_request(static_paths, disk, disk_error, request) ==
    LET path_prefix == CHOOSE p \in DOMAIN static_paths : starts_with(request.target, p)
        file_path == static_paths[path_prefix]
                     \o SubSeq(request.target, Len(path_prefix) + 1, Len(request.target))
    IN  IF disk_error THEN make_error_response(500)
        ELSE IF ~file_exists(disk, normalize_path(file_path)) THEN make_error_response(404)
        ELSE make_response(request, 200)

\* handle_request: the method is one it can handle
KnownMethod(method) ==
    method \in {"GET", "HEAD", "POST", "PUT", "DELETE", "OPTIONS"}

\* a target check that forgets the ".." test
IllegalTarget_NoDotDot(target) ==
    \/ target = <<>>
    \/ target[1] # "/"

\* handle_request: the target is empty, not absolute, or contains ".."
IllegalTarget(target) ==
    \/ target = <<>>
    \/ target[1] # "/"
    \/ Contains(target, DotDot)

\* the environment of one handle_request call: the server's configuration,
\* the disk, and what the Python handler does
HandlerEnvs(static_paths, handler, python_handler, disk) ==
    [static_paths : {static_paths}, handler : {handler},
     python_handler : {python_handler}, disk : {disk},
     disk_error : BOOLEAN, outcome : PyOutcomes]

\* a handle_request without is_static: a request served from a static prefix
\* goes on to handle_dynamic_request as well
handle_request_NoStaticFlag(request, env) ==
    IF ~KnownMethod(request.method)
    THEN [res |-> make_error_response(400), invoked |-> "none", callback |-> "none",
          writes |-> 1]
    ELSE IF IllegalTarget(request.target)
    THEN [res |-> make_error_response(400), invoked |-> "none", callback |-> "none",
          writes |-> 1]
    ELSE LET dynamic == handle_dynamic_request(env.handler, env.python_handler,
                                               env.outcome)
             called  == IF env.handler = "pyspeed" /\ env.python_handler
                        THEN env.outcome.kind ELSE "none"
         IN  IF \E p \in DOMAIN env.static_paths : starts_with(request.target, p)
             THEN [res |-> dynamic, invoked |-> "static", callback |-> called,
                   writes |-> 1 + (IF dynamic = Escapes THEN 0 ELSE 1)]
             ELSE [res |-> dynamic, invoked |-> "dynamic", callback |-> called,
                   writes |-> IF dynamic = Escapes THEN 0 ELSE 1]

\* Session::handle_request: the response it hands to http::async_write, the
\* path that produced it, and how many times async_write was called: once by
\* bad_request, once on each path through handle_static_request, and once
\* for each time the request handler called its callback
handle_request(request, env) ==
    IF ~KnownMethod(request.method)
    THEN [res |-> make_error_response(400), invoked |-> "none", callback |-> "none",
          writes |-> 1]
    ELSE IF IllegalTarget(request.target)
    THEN [res |-> make_error_response(400), invoked |-> "none", callback |-> "none",
          writes |-> 1]
    ELSE IF \E p \in DOMAIN env.static_paths : starts_with(request.target, p)
    THEN [res |-> handle_static_request(env.static_paths, env.disk, env.disk_error,
                                        request),
          invoked |-> "static", callback |-> "none", writes |-> 1]
    ELSE LET dynamic == handle_dynamic_request(env.handler, env.python_handler,
                                               env.outcome)
         IN  [res |-> dynamic,
              invoked |-> "dynamic",
              callback |-> IF env.handler = "pyspeed" /\ env.python_handler
                           THEN env.outcome.kind ELSE "none",
              writes |-> IF dynamic = Escapes THEN 0 ELSE 1]

\* the last response whose write completed
NoAnswer ==
    [number |-> 0, keep_alive |-> FALSE, connection |-> "none", force_close |-> FALSE,
     invoked |-> "none"]

\* a session after construction.  pc, req_ are the session; res and close are
\* the response given to the outstanding async_write and the flag bound to
\* on_write.  The rest records the history: do_read calls, the numbers of the
\* requests whose responses were written, the path that handled req_, what the
\* Python callback did with it, the number of async_write calls made for it,
\* the error code of the last read, whether the bytes sent were those of res, and
\* the last answered request.  expires is the time left on the timer of
\* stream_.
NewSession ==
    [pc |-> "constructed", req_ |-> NoRequest, res |-> NoResponse, close |-> FALSE,
     reads |-> 0, written |-> <<>>, invoked |-> "none", callback |-> "none",
     writes |-> 0, read_ec |-> "none",
     wire |-> "none", answered |-> NoAnswer, expires |-> NoExpiry]

\* a do_read that leaves the timer of stream_ as it is
do_read_NoRearm(s) ==
    [s EXCEPT !.pc = "reading", !.req_ = NoRequest, !.res = NoResponse,
              !.close = FALSE, !.reads = @ + 1, !.invoked = "none",
              !.callback = "none", !.writes = 0, !.read_ec = "pending"]

\* Session::do_read: req_ = {}, stream_.expires_after(keep_alive_timeout),
\* async_read
do_read(s) ==
    [s EXCEPT !.pc = "reading", !.req_ = NoRequest, !.res = NoResponse,
              !.close = FALSE, !.reads = @ + 1, !.invoked = "none",
              !.callback = "none", !.writes = 0, !.read_ec = "pending",
              !.expires = keep_alive_timeout]

\* Session::do_close: shutdown_send, and no operation is left outstanding
do_close(s) == [s EXCEPT !.pc = "closed"]

\* error codes async_read completes with: beast::error::timeout once the
\* timer of stream_ has fired, which closes the socket
ReadOutcomes(s) ==
    IF s.expires = 0 THEN {"timeout"} ELSE {"ok", "end_of_stream", "parse_error"}

\* error codes async_write completes with
WriteOutcomes(s) ==
    IF s.expires = 0 THEN {"timeout"} ELSE {"ok", "error"}

\* Session::on_read, with handle_request and the async_write it starts.
\* Nothing between the request handler and ioc_.run() in the worker thread
\* catches: an exception that leaves the handler ends the process.
on_read(s, ec, request, env) ==
    IF ec = "end_of_stream" THEN do_close([s EXCEPT !.read_ec = ec])
    ELSE IF ec # "ok" THEN [s EXCEPT !.pc = "ended", !.read_ec = ec]
    ELSE LET h == handle_request(request, env)
         IN  IF h.res = Escapes
             THEN [s EXCEPT !.pc = "terminated", !.req_ = request,
                            !.invoked = h.invoked, !.callback = h.callback,
                            !.writes = h.writes, !.read_ec = ec]
             ELSE [s EXCEPT !.pc = "writing", !.req_ = request, !.res = h.res,
                            !.close = need_eof(h.res), !.invoked = h.invoked,
                            !.callback = h.callback, !.writes = h.writes,
                            !.read_ec = ec]

\* the response whose write has just completed, for the history
Answer(s) ==
    [number |-> s.reads, keep_alive |-> keep_alive(s.req_),
     connection |-> s.req_.connection, force_close |-> s.res.connection = "close",
     invoked |-> s.invoked]

\* an on_write that reads the next request even after a failed write
on_write_ReadsAfterError(s, close, ec, wire) ==
    IF ec # "ok" THEN do_read(s)
    ELSE LET done == [s EXCEPT !.written = Append(@, s.reads), !.wire = wire,
                               !.answered = Answer(s)]
         IN  IF close THEN do_close(done) ELSE do_read(done)

\* Session::on_write
on_write(s, close, ec, wire) ==
    IF ec # "ok" THEN [s EXCEPT !.pc = "ended"]
    ELSE LET done == [s EXCEPT !.written = Append(@, s.reads), !.wire = wire,
                               !.answered = Answer(s)]
         IN  IF close THEN do_close(done) ELSE do_read(done)

\* Session::run
SessionRun ==
    /\ session.pc = "constructed"
    /\ session' = do_read([session EXCEPT !.expires = keep_alive_timeout])
    /\ UNCHANGED <<static_paths_, request_handler_, python_handler_, server_stats,
                   server>>
    /\ UNCHANGED <<staticVars, libVars>>

\* async_read completes and on_read runs
SessionOnRead ==
    /\ session.pc = "reading"
    /\ \E ec \in ReadOutcomes(session), request \in Requests,
          env \in HandlerEnvs(static_paths_, request_handler_, python_handler_, fs) :
          /\ session' = on_read(session, ec, request, env)
          /\ server_stats' =
                 IF ec = "ok" THEN [server_stats EXCEPT !.requests_processed = @ + 1]
                 ELSE IF ec = "end_of_stream" THEN server_stats
                 ELSE [server_stats EXCEPT !.errors = @ + 1]
    /\ UNCHANGED <<static_paths_, request_handler_, python_handler_, server>>
    /\ UNCHANGED <<staticVars, libVars>>

\* async_write completes and on_write runs.  The response object is a local of
\* the function that started the write and is gone by now, so the bytes sent
\* are its bytes or not.
SessionOnWrite ==
    /\ session.pc = "writing"
    /\ \E ec \in WriteOutcomes(session), wire \in {"intact", "garbage"} :
          /\ on_write(session, session.close, ec, wire).reads <= MaxRequests
          /\ session' = on_write(session, session.close, ec, wire)
          /\ server_stats' = IF ec = "ok" THEN server_stats
                             ELSE [server_stats EXCEPT !.errors = @ + 1]
    /\ UNCHANGED <<static_paths_, request_handler_, python_handler_, server>>
    /\ UNCHANGED <<staticVars, libVars>>

\* time passes while a read or a write is outstanding; at 0 the timer of
\* stream_ fires
TimerTick ==
    /\ session.pc \in {"reading", "writing"}
    /\ session.expires > 0
    /\ session' = [session EXCEPT !.expires = @ - 1]
    /\ UNCHANGED <<static_paths_, request_handler_, python_handler_, server_stats,
                   server>>
    /\ UNCHANGED <<staticVars, libVars>>

\* one accepted connection of a server with or without a static prefix, a
\* request handler and a Python handler
InitSession ==
    /\ InitStatic("session", {Config(Root_s, 3, 2)}, {<< >>}, {File_sa}, 0, 0)
    /\ static_paths_ \in {<< >>, (Route_s :> Root_s)}
    /\ request_handler_ \in {"none", "pyspeed"}
    /\ python_handler_ \in BOOLEAN
    /\ session = NewSession
    /\ server_stats = ZeroServerStats
    /\ server = StartedServer
    /\ NoCall

NextSession == SessionRun \/ SessionOnRead \/ SessionOnWrite \/ TimerTick

SpecSession == InitSession /\ [][NextSession]_vars

(***************************************************************************)
(* Properties of a session                                                 *)
(***************************************************************************)

\* C6: on one session the responses are written in the order the requests
\* arrived, and the read of request N+1 is started only after the write of the
\* response to request N has completed successfully.
C6_WritesInOrderReadAfterWrite ==
    /\ session.written = [i \in 1..Len(session.written) |-> i]
    /\ session.reads <= Len(session.written) + 1
    /\ session.pc = "writing" => session.reads = Len(session.written) + 1

\* a keep-alive connection on which two responses were written and the third
\* read has started
C6_Witness ==
    /\ session.pc = "reading"
    /\ session.reads = 3
    /\ Len(session.written) = 2
    /\ session.answered.keep_alive

\* C7: after a response was written successfully, the session reads the next
\* request if the request signaled keep-alive and the response did not force
\* close; otherwise it half-closes and starts no other read.
C7_KeepAliveOrClose ==
    LET a == session.answered
    IN  a.number > 0 =>
            IF a.keep_alive /\ ~a.force_close
            THEN session.reads > a.number
            ELSE session.pc = "closed" /\ session.reads = a.number

\* C8: after the response to a request with Connection: close was written, on
\* the static path and on the application-handler path, the session is closed
\* and no further request is read.
C8_ConnectionCloseCloses ==
    LET a == session.answered
    IN  a.number > 0 /\ a.connection = "close" /\ a.invoked \in {"static", "dynamic"} =>
            session.pc = "closed" /\ session.reads = a.number

\* the requests the validation gate is to refuse
RefusedByGate(request) ==
    \/ request.method \notin {"GET", "HEAD", "POST", "PUT", "DELETE", "OPTIONS"}
    \/ request.target = <<>>
    \/ request.target[1] # "/"
    \/ \E i \in 1..(Len(request.target) - 1) :
           request.target[i] = "." /\ request.target[i + 1] = "."

\* C9: a request with a method outside GET, HEAD, POST, PUT, DELETE, OPTIONS,
\* or with a target that is empty, does not start with "/" or contains "..",
\* gets the response 400 handed to the write, and neither the static path nor
\* the application handler is invoked for it.
C9_GateAnswers400 ==
    session.pc = "writing" /\ RefusedByGate(session.req_) =>
        session.res.status = 400 /\ session.invoked = "none"

\* a request with a listed method and a target with ".." was answered with 400
C9_Witness ==
    /\ session.pc = "writing"
    /\ session.req_.method = "GET"
    /\ session.req_.target = Target_up
    /\ session.res.status = 400
    /\ session.invoked = "none"

\* C10: when reading a request fails with a parse error, a 400 response is
\* written and the connection is then closed.
C10_ParseFailureAnswered400 ==
    session.read_ec = "parse_error" =>
        /\ session.res.status = 400
        /\ session.close
        /\ session.pc \in {"writing", "closed", "ended"}


\* C11: when the Python callback raises while a dynamic request is handled, a
\* 500 response is handed to the write on that session, and no exception
\* leaves the request handler into the worker thread's ioc_.run().
C11_CallbackThrowAnswered500 ==
    /\ session.pc # "terminated"
    /\ session.callback = "raises" =>
           /\ session.invoked = "dynamic"
           /\ session.res.status = 500
           /\ session.pc \in {"writing", "closed", "ended"}

\* the callback raised and the 500 response is being written
C11_Witness ==
    /\ session.callback = "raises"
    /\ session.pc = "writing"
    /\ session.res.status = 500


\* C12: every start of a read re-arms the timer of the session to
\* keep_alive_timeout; once the timer has fired, the session ends and no
\* response is written: no write completes and none is started.
C12_TimerRearmedFiresSilently ==
    [][ /\ session'.reads # session.reads => session'.expires = keep_alive_timeout
        /\ (session.expires = 0 /\ session' # session) =>
               /\ session'.pc = "ended"
               /\ session'.written = session.written
               /\ session'.res = session.res ]_vars

\* the timer fired while the second read on a connection was outstanding, and
\* the session ended without a response
C12_Witness ==
    /\ session.pc = "ended"
    /\ session.read_ec = "timeout"
    /\ session.expires = 0
    /\ session.reads = 2
    /\ session.res = NoResponse


RECURSIVE SumFileSize(_)
\* the bytes of a set of entries recorded by a cache_file call
SumFileSize(recs) ==
    IF recs = {} THEN 0
    ELSE LET r == CHOOSE x \in recs : TRUE
         IN  r.file_size + SumFileSize(recs \ {r})

\* no entry that was left was last served earlier than one that was erased
EvictedOldestFirst(ev) ==
    \A g \in ev.gone, h \in ev.kept : g.last_accessed <= h.last_accessed

\* C13: after cache_file has inserted an entry of size k into a cache with less
\* than k bytes of headroom, the entries it erased were the least recently
\* served ones, and it erased at least k bytes of them or, when the index held
\* less than that, every entry.
C13_EvictionProgress ==
    \A t \in Threads :
        pc[t] = "respond" /\ loc[t].evict.short =>
            /\ EvictedOldestFirst(loc[t].evict)
            /\ \/ SumFileSize(loc[t].evict.gone) >= loc[t].evict.needed
               \/ loc[t].evict.kept = {}

\* C13 as stated: at least k bytes are erased whenever the headroom is below k
C13_AtLeastKBytesEvicted ==
    \A t \in Threads :
        pc[t] = "respond" /\ loc[t].evict.short =>
            /\ EvictedOldestFirst(loc[t].evict)
            /\ SumFileSize(loc[t].evict.gone) >= loc[t].evict.needed

\* an insert that erased the least recently served entry and left a later one
C13_Witness ==
    \E t \in Threads :
        /\ pc[t] = "respond"
        /\ loc[t].evict.short
        /\ loc[t].evict.gone # {}
        /\ loc[t].evict.kept # {}
        /\ SumFileSize(loc[t].evict.gone) >= loc[t].evict.needed

\* the runs of compress_content that produced a buffer for an indexed entry
Compressions(e) == IF entries[e].alive THEN entries[e].compressions ELSE 0

\* C14: the compressed form of a cache entry is computed at most once, also
\* when several threads serve the entry to gzip clients at the same time
C14_CompressedAtMostOnce ==
    \A e \in EntryIds : Compressions(e) <= 1

RECURSIVE SumCompressions(_)
SumCompressions(ids) ==
    IF ids = {} THEN 0
    ELSE LET e == CHOOSE x \in ids : TRUE
         IN  Compressions(e) + SumCompressions(ids \ {e})

\* C15: files_compressed counts the compressions that were performed: a serve
\* that reuses the stored compressed buffer does not increment it (no entry
\* leaves the index in SpecGzip, so every compression is still on an entry)
C15_CountsCompressionsOnly ==
    stats_.files_compressed = SumCompressions(EntryIds)


\* C16: a serve answers from a cache entry only if the mtime stored on the
\* entry is the mtime of the file: when the file still has the mtime the
\* serve found on it, the entry at hand (found in the index, or made on a
\* miss) carries that mtime, so a modified file is never a hit
C16_HitOnlyIfMtimeEqual ==
    \A t \in Threads :
        ( /\ pc[t] = "respond"
          /\ file_exists(fs, loc[t].file_path)
          /\ get_last_write_time(fs, loc[t].file_path) = loc[t].last_modified )
        => entries[loc[t].cached_entry].last_modified = loc[t].last_modified


\* the ETag an earlier serve returned for a file whose entry is in the index
ServedEtag(etag) ==
    \E p \in DOMAIN cache_ : entries[cache_[p]].etag = etag

\* C17: a serve_file call that repeats a served request, with If-None-Match
\* equal to the ETag that serve returned, returns NOT_MODIFIED with no body,
\* and adds one to not_modified_responses and one to cache_hits
C17_RevalidationCountsHit ==
    [][ \A t \in Threads :
          ( /\ pc[t] = "idle"
            /\ pc'[t] = "returned"
            /\ ServedEtag(req'[t].headers.if_none_match)
            /\ req'[t].headers.if_none_match = result'[t].etag )
          => /\ result'[t].status = "NOT_MODIFIED"
             /\ result'[t].content_length = 0
             /\ result'[t].data = NullData
             /\ stats_'.not_modified_responses = stats_.not_modified_responses + 1
             /\ stats_'.cache_hits = stats_.cache_hits + 1 ]_vars


\* a Range value of one of the three forms, with nothing but digits where a
\* number stands
WellFormedRange(h) ==
    /\ h.bytes
    /\ h.dash
    /\ ~h.trailing
    /\ h.start # NotANumber
    /\ h.end # NotANumber
    /\ ~(h.start = Empty /\ h.end = Empty)

\* the first and the last byte a well-formed Range value names in a file of
\* file_size bytes
ResolvedStart(h, file_size) ==
    IF h.start # Empty THEN h.start
    ELSE IF file_size > h.end THEN file_size - h.end ELSE 0

ResolvedEnd(h, file_size) ==
    IF h.start # Empty /\ h.end # Empty THEN h.end ELSE file_size - 1

Satisfiable(h, file_size) ==
    /\ WellFormedRange(h)
    /\ ResolvedStart(h, file_size) <= ResolvedEnd(h, file_size)
    /\ ResolvedEnd(h, file_size) < file_size

\* C18: a serve_file call with a Range header returns SUCCESS with
\* is_partial_content, range_start, range_end, total_size and content_length
\* = end - start + 1 when the value is of one of the three forms and resolves
\* to start <= end < file_size, and RANGE_NOT_SATISFIABLE for every other value
C18_RangeAnswer ==
    \A t \in Threads :
        (pc[t] = "returned" /\ req[t].headers.range.present) =>
            LET h         == req[t].headers.range
                file_size == get_file_size(fs, resolve_file_path(config_, routes_,
                                                                 req[t].path))
                res       == result[t]
            IN  IF Satisfiable(h, file_size)
                THEN /\ res.status = "SUCCESS"
                     /\ res.is_partial_content
                     /\ res.range_start = ResolvedStart(h, file_size)
                     /\ res.range_end = ResolvedEnd(h, file_size)
                     /\ res.total_size = file_size
                     /\ res.content_length = res.range_end - res.range_start + 1
                ELSE res.status = "RANGE_NOT_SATISFIABLE"


\* the file a returned serve_file call was about
ServedFile(t) == resolve_file_path(config_, routes_, req[t].path)

\* C19: a file larger than max_file_size_mb is served without a cache entry:
\* the result is SUCCESS, its data is backed by a mapping of the file that
\* covers content_length, and the file is not in the index
C19_LargeFileServedFromMapping ==
    \A t \in Threads :
        ( /\ pc[t] = "returned"
          /\ get_file_size(fs, ServedFile(t)) > config_.max_file_size_mb * 1024 * 1024 )
        => /\ result[t].status = "SUCCESS"
           /\ result[t].data.kind # "null"
           /\ ServedFile(t) \notin DOMAIN cache_


\* C20: every serve_file call, whatever its outcome, has added one to
\* files_served and its content_length to bytes_served when it returns
C20_EveryServeCounted ==
    [][ \A t \in Threads :
          (pc[t] # "returned" /\ pc'[t] = "returned") =>
              /\ stats_'.files_served = stats_.files_served + 1
              /\ stats_'.bytes_served = stats_.bytes_served + result'[t].content_length
      ]_vars


(***************************************************************************)
(* The route matcher (request_parser.cpp, RouteParser)                     *)
(*                                                                         *)
(* A call is modelled by the action that makes it: the arguments go into   *)
(* call and what comes back, a value or an exception, into ret.            *)
(***************************************************************************)

MaxRoutes == 2
MaxRoutePathLen == 4

\* the characters match_pattern puts a backslash in front of: escape_regex
\* is the class [.^$|()[\]*+?\\]; '{' and '}' are not in it
RegexSpecial == {".", "^", "$", "|", "(", ")", "[", "]", "*", "+", "?", "\\"}

\* std::regex_replace(regex_pattern, escape_regex, "\\$&")
RECURSIVE EscapeSpecial(_)
EscapeSpecial(text) ==
    IF text = << >> THEN << >>
    ELSE IF Head(text) \in RegexSpecial
         THEN <<"\\", Head(text)>> \o EscapeSpecial(Tail(text))
         ELSE <<Head(text)>> \o EscapeSpecial(Tail(text))

\* position of the first c in text at or after from, 0 when there is none
FindFrom(text, c, from) ==
    LET hits == { i \in from..Len(text) : text[i] = c }
    IN  IF hits = {} THEN 0 ELSE CHOOSE i \in hits : \A j \in hits : i <= j

\* the capture group that stands for a placeholder
CaptureGroup == <<"(", "[", "^", "/", "]", "+", ")">>

\* std::regex_replace(regex_pattern, param_regex, "([^/]+)"), where
\* param_regex is \\\{([^}]+)\\\}: a backslash, '{', one or more characters
\* other than '}', a backslash, '}'. A '{' with no backslash in front of it
\* is not touched.
RECURSIVE ReplaceParams(_)
ReplaceParams(text) ==
    IF text = << >> THEN << >>
    ELSE LET close == FindFrom(text, "}", 3)
             found == /\ Len(text) >= 5
                      /\ text[1] = "\\"
                      /\ text[2] = "{"
                      /\ close >= 5
                      /\ text[close - 1] = "\\"
         IN  IF found
             THEN CaptureGroup \o ReplaceParams(SubSeq(text, close + 1, Len(text)))
             ELSE <<Head(text)>> \o ReplaceParams(Tail(text))

\* the text match_pattern hands to std::regex, without the anchors
RouteRegex(pattern) == ReplaceParams(EscapeSpecial(pattern))

\* std::regex(regex_pattern) throws std::regex_error: in the ECMAScript
\* grammar a '{' opens a repeat count and must be followed by digits. The
\* patterns drawn here hold no digit and no backslash, so every '{' left in
\* the text is such a '{', and no capture group is in the text.
RegexThrows(regex) == Contains(regex, <<"{">>)

\* the literal text a regex without groups and repeat counts stands for
RECURSIVE Unescaped(_)
Unescaped(regex) ==
    IF regex = << >> THEN << >>
    ELSE IF Head(regex) = "\\" /\ Len(regex) >= 2
         THEN <<regex[2]>> \o Unescaped(SubSeq(regex, 3, Len(regex)))
         ELSE <<Head(regex)>> \o Unescaped(Tail(regex))

\* RouteParser::extract_param_names: the matches of \{([^}]+)\} from left to
\* right
RECURSIVE extract_param_names(_)
extract_param_names(pattern) ==
    LET open  == FindFrom(pattern, "{", 1)
        close == IF open = 0 THEN 0 ELSE FindFrom(pattern, "}", open + 1)
    IN  IF open = 0 \/ close = 0 THEN << >>
        ELSE IF close = open + 1
             THEN extract_param_names(SubSeq(pattern, open + 1, Len(pattern)))
             ELSE <<SubSeq(pattern, open + 1, close - 1)>>
                  \o extract_param_names(SubSeq(pattern, close + 1, Len(pattern)))

NoParams == << >>

\* RouteParser::match_pattern: thrown says that std::regex_error left the
\* function. The regex that compiles holds no capture group, so matches has
\* size 1 and the loop over param_names assigns nothing.
match_pattern(pattern, path) ==
    LET regex == RouteRegex(pattern)
    IN  IF RegexThrows(regex)
        THEN [thrown |-> TRUE, matched |-> FALSE, params |-> NoParams]
        ELSE [thrown |-> FALSE, matched |-> (path = Unescaped(regex)),
              params |-> NoParams]

\* RouteParser::MatchResult, and what match_route leaves when it throws
NoMatch == [fn |-> "match_route", thrown |-> FALSE, matched |-> FALSE,
            handler_id |-> "", params |-> NoParams]
RegexError == [NoMatch EXCEPT !.thrown = TRUE]

\* RouteParser::match_route: the routes in registration order
RECURSIVE match_route(_, _)
match_route(routes, path) ==
    IF routes = << >> THEN NoMatch
    ELSE LET m == match_pattern(Head(routes).pattern, path)
         IN  IF m.thrown THEN RegexError
             ELSE IF m.matched
             THEN [NoMatch EXCEPT !.matched = TRUE,
                                  !.handler_id = Head(routes).handler_id,
                                  !.params = m.params]
             ELSE match_route(Tail(routes), path)

\* RouteParser::add_route
add_route(routes, pattern, handler_id) ==
    Append(routes, [pattern       |-> pattern,
                    handler_id    |-> handler_id,
                    param_names   |-> extract_param_names(pattern),
                    has_wildcards |-> Contains(pattern, <<"{">>)])

\* the patterns the embedder registers
Patterns ==
    { <<"/", "a">>,
      <<"/", "a", "/", "b">>,
      <<"/", "a", ".", "b">>,
      <<"/", "a", "/", "{", "x", "}">>,
      <<"/", "{", "x", "}", "/", "b">>,
      <<"/", "{", "x", "}", "/", "{", "y", "}">> }

HandlerIds == {"h1", "h2"}

\* the request paths: every string over '/', 'a', 'b', '.' up to MaxRoutePathLen
RoutePaths == UNION { [1..n -> {"/", "a", "b", "."}] : n \in 0..MaxRoutePathLen }

AddRoute ==
    /\ UNCHANGED <<staticVars, sessionVars, parser_stats_>>
    /\ Len(parser_routes_) < MaxRoutes
    /\ \E pattern \in Patterns, handler_id \in HandlerIds :
          /\ parser_routes_' = add_route(parser_routes_, pattern, handler_id)
          /\ call' = [fn |-> "add_route", pattern |-> pattern,
                      handler_id |-> handler_id]
          /\ ret' = [fn |-> "add_route"]

\* match_route changes nothing in the parser, so a second call in a row would
\* only repeat the first: one call is made for each state of the table
MatchRoute ==
    /\ UNCHANGED <<staticVars, sessionVars, parser_stats_>>
    /\ call.fn # "match_route"
    /\ \E path \in RoutePaths :
          /\ call' = [fn |-> "match_route", path |-> path]
          /\ ret' = match_route(parser_routes_, path)
    /\ UNCHANGED parser_routes_

InitRoute ==
    /\ NoServer
    /\ NoCall
    /\ InitStatic("route", {Config(Root_s, 3, 2)}, {<< >>}, {}, 0, 0)

NextRoute == AddRoute \/ MatchRoute

SpecRoute == InitRoute /\ [][NextRoute]_vars

\* whether a path is one the pattern describes: literal characters equal,
\* and a non-empty run of characters other than '/' where {name} stands
RECURSIVE PatternDescribes(_, _)
PatternDescribes(pattern, path) ==
    IF pattern = << >> THEN path = << >>
    ELSE LET close == FindFrom(pattern, "}", 2)
         IN  IF Head(pattern) = "{" /\ close > 2
             THEN \E k \in 1..Len(path) :
                     /\ \A i \in 1..k : path[i] # "/"
                     /\ PatternDescribes(SubSeq(pattern, close + 1, Len(pattern)),
                                         SubSeq(path, k + 1, Len(path)))
             ELSE /\ path # << >>
                  /\ Head(path) = Head(pattern)
                  /\ PatternDescribes(Tail(pattern), Tail(path))

\* the routes of the table that describe the path, by position
Describing(path) ==
    { i \in 1..Len(parser_routes_) : PatternDescribes(parser_routes_[i].pattern, path) }

\* C21: when two registered routes both match the path, match_route returns
\* matched = true with the handler_id of the one registered first
C21_FirstRegisteredWins ==
    (call.fn = "match_route" /\ Cardinality(Describing(call.path)) >= 2) =>
        LET first == CHOOSE i \in Describing(call.path) :
                        \A j \in Describing(call.path) : i <= j
        IN  /\ ~ret.thrown
            /\ ret.matched
            /\ ret.handler_id = parser_routes_[first].handler_id

\* C22: a pattern with {name} placeholders matches exactly the paths it
\* describes, and on a match params has an entry for each placeholder name
C22_PlaceholderPatternMatches ==
    (call.fn = "match_route" /\ Len(parser_routes_) = 1) =>
        LET route == parser_routes_[1]
        IN  /\ ~ret.thrown
            /\ ret.matched = PatternDescribes(route.pattern, call.path)
            /\ ret.matched =>
                  \A i \in 1..Len(route.param_names) :
                      route.param_names[i] \in DOMAIN ret.params


(***************************************************************************)
(* The request parser's headers (request_parser.cpp, RequestParser)        *)
(***************************************************************************)

MaxHeaderNameLen == 2
MaxHeaders == 2

\* ::tolower on the characters header names are drawn from
ToLowerChar(c) == IF c = "A" THEN "a" ELSE IF c = "B" THEN "b" ELSE c

\* std::transform(name.begin(), name.end(), name.begin(), ::tolower)
ToLower(name) == [i \in 1..Len(name) |-> ToLowerChar(name[i])]

\* RequestParser::parse_headers: the fields in the order received, each
\* stored under its lowercased name; a later field replaces an earlier one
RECURSIVE parse_headers(_, _)
parse_headers(fields, headers) ==
    IF fields = << >> THEN headers
    ELSE LET name  == ToLower(Head(fields).name)
             value == Head(fields).value
             rest  == [n \in (DOMAIN headers) \ {name} |-> headers[n]]
         IN  parse_headers(Tail(fields), (name :> value) @@ rest)

\* the header names a client sends and a handler asks for
HeaderNames ==
    UNION { [1..n -> {"a", "A", "b", "-"}] : n \in 1..MaxHeaderNameLen }

HeaderValues == {"v1", "v2"}

HeaderFields == [name : HeaderNames, value : HeaderValues]

HeaderLists == UNION { [1..n -> HeaderFields] : n \in 0..MaxHeaders }

\* RequestParser::parse on a request with these header fields
ParseRequest ==
    /\ UNCHANGED <<staticVars, sessionVars, parser_routes_, parser_stats_>>
    /\ call.fn = "none"
    /\ \E fields \in HeaderLists :
          /\ call' = [fn |-> "parse", fields |-> fields]
          /\ ret' = [fn |-> "parse", headers |-> parse_headers(fields, << >>)]

\* ParsedRequest::headers.find(key) on the parsed request: the container is
\* std::unordered_map<std::string, std::string>, whose find compares the key
\* as it is given
FindHeader ==
    /\ UNCHANGED <<staticVars, sessionVars, parser_routes_, parser_stats_>>
    /\ ret.fn = "parse"
    /\ \E key \in HeaderNames :
          /\ call' = [fn |-> "find", fields |-> call.fields, key |-> key]
          /\ ret' = [fn      |-> "find",
                     headers |-> ret.headers,
                     found   |-> key \in DOMAIN ret.headers,
                     value   |-> IF key \in DOMAIN ret.headers
                                 THEN ret.headers[key] ELSE ""]

InitHeaders ==
    /\ NoServer
    /\ NoCall
    /\ InitStatic("headers", {Config(Root_s, 3, 2)}, {<< >>}, {}, 0, 0)

NextHeaders == ParseRequest \/ FindHeader

SpecHeaders == InitHeaders /\ [][NextHeaders]_vars

\* the received fields whose name is key in some ASCII casing, by position
SameName(fields, key) ==
    { i \in 1..Len(fields) : ToLower(fields[i].name) = ToLower(key) }

\* C23: a header received under any casing of its name is found under any
\* casing of that name, with the value stored for it (the last one received)
C23_LookupAnyCasing ==
    (ret.fn = "find" /\ SameName(call.fields, call.key) # {}) =>
        LET last == CHOOSE i \in SameName(call.fields, call.key) :
                        \A j \in SameName(call.fields, call.key) : j <= i
        IN  /\ ret.found
            /\ ret.value = call.fields[last].value


(***************************************************************************)
(* The response builder's header fields (request_parser.cpp,               *)
(* ResponseBuilder). A header value is a sequence of the pieces it is      *)
(* concatenated from; a field name is compared as Beast compares it,       *)
(* without regard to ASCII case.                                           *)
(***************************************************************************)

MaxCookies == 2

\* beast::iequals on the field names that occur: the lowercase form
FieldKey(name) ==
    CASE name \in {"Server", "server"} -> "server"
      [] name \in {"Content-Length", "content-length"} -> "content-length"
      [] name \in {"Set-Cookie", "set-cookie"} -> "set-cookie"
      [] OTHER -> name

\* http::basic_fields::set(name, value): every field of that name is erased
\* and the new one inserted
RECURSIVE EraseField(_, _)
EraseField(fields, name) ==
    IF fields = << >> THEN << >>
    ELSE IF FieldKey(Head(fields).name) = FieldKey(name)
         THEN EraseField(Tail(fields), name)
         ELSE <<Head(fields)>> \o EraseField(Tail(fields), name)

SetField(fields, name, value) ==
    Append(EraseField(fields, name), [name |-> name, value |-> value])

\* the loop over data.headers (248-250)
RECURSIVE SetHeaders(_, _)
SetHeaders(fields, headers) ==
    IF headers = << >> THEN fields
    ELSE SetHeaders(SetField(fields, Head(headers).name, Head(headers).value),
                    Tail(headers))

\* the loop over data.cookies (253-255): name + "=" + value + "; Path=/"
RECURSIVE SetCookies(_, _)
SetCookies(fields, cookies) ==
    IF cookies = << >> THEN fields
    ELSE SetCookies(SetField(fields, "Set-Cookie",
                             <<Head(cookies).name, "=">> \o Head(cookies).value
                                 \o <<"; Path=", "/">>),
                    Tail(cookies))

\* std::to_string of a size or a count
to_string(n) == <<ToString(n)>>

\* whether message::prepare_payload throws std::invalid_argument: a body in
\* a 1xx, 204 or 304 response
BodyForbidden(status_code) ==
    \/ status_code \in 100..199
    \/ status_code = 204
    \/ status_code = 304

\* ResponseBuilder::build_response, with its header fields. prepare_payload
\* sets Content-Length to the size of the body once more.
BuiltResponse(data) ==
    LET basic   == SetField(SetField(<< >>, "Server", <<"PySpeed/1.0">>),
                            "Content-Length", to_string(Len(data.body)))
        custom  == SetHeaders(basic, data.headers)
        cookied == SetCookies(custom, data.cookies)
    IN  IF Len(data.body) > 0 /\ BodyForbidden(data.status_code)
        THEN [fn |-> "build_response", thrown |-> TRUE, status |-> 0,
              fields |-> << >>, body |-> << >>]
        ELSE [fn     |-> "build_response",
              thrown |-> FALSE,
              status |-> data.status_code,
              fields |-> SetField(cookied, "Content-Length",
                                  to_string(Len(data.body))),
              body   |-> data.body]

\* ResponseBuilder::add_cookie
add_cookie(response, name, value, path, domain, max_age, secure, http_only) ==
    LET v0 == <<name, "=", value>>
        v1 == IF path # "" THEN v0 \o <<"; Path=", path>> ELSE v0
        v2 == IF domain # "" THEN v1 \o <<"; Domain=", domain>> ELSE v1
        v3 == IF max_age >= 0 THEN v2 \o <<"; Max-Age=">> \o to_string(max_age) ELSE v2
        v4 == IF secure THEN v3 \o <<"; Secure">> ELSE v3
        v5 == IF http_only THEN v4 \o <<"; HttpOnly">> ELSE v4
    IN  [response EXCEPT !.cookies = Append(@, [name |-> name, value |-> v5])]

\* the headers a handler puts on its response, in the order the
\* unordered_map hands them to the loop
CallerHeaders ==
    { << >>,
      <<[name |-> "x-a", value |-> <<"1">>]>>,
      <<[name |-> "content-length", value |-> <<"5">>]>>,
      <<[name |-> "server", value |-> <<"mine">>]>>,
      <<[name |-> "x-a", value |-> <<"1">>],
        [name |-> "content-length", value |-> <<"5">>]>>,
      <<[name |-> "content-length", value |-> <<"5">>],
        [name |-> "x-a", value |-> <<"1">>]>> }

ResponseBodies == { << >>, <<"h", "i">> }

\* a handler makes its ResponseData
NewResponseData ==
    /\ UNCHANGED <<staticVars, sessionVars, parser_routes_, parser_stats_>>
    /\ call.fn = "none"
    /\ \E status_code \in {200, 204}, headers \in CallerHeaders,
          body \in ResponseBodies :
          call' = [fn |-> "ResponseData",
                   data |-> [status_code |-> status_code, headers |-> headers,
                             cookies |-> << >>, body |-> body]]
    /\ UNCHANGED ret

\* the handler adds a cookie to it
AddCookie ==
    /\ UNCHANGED <<staticVars, sessionVars, parser_routes_, parser_stats_>>
    /\ call.fn = "ResponseData"
    /\ Len(call.data.cookies) < MaxCookies
    /\ \E name \in {"a", "b"}, path \in {"", "/p"}, max_age \in {0 - 1, 0},
          secure \in BOOLEAN :
          call' = [call EXCEPT !.data =
                      add_cookie(@, name, "1", path, "", max_age, secure, FALSE)]
    /\ UNCHANGED ret

\* ResponseBuilder::build_response on it
BuildResponse ==
    /\ UNCHANGED <<staticVars, sessionVars, parser_routes_, parser_stats_>>
    /\ call.fn = "ResponseData"
    /\ call' = [fn |-> "build_response", data |-> call.data]
    /\ ret' = BuiltResponse(call.data)

InitBuilder ==
    /\ NoServer
    /\ NoCall
    /\ InitStatic("builder", {Config(Root_s, 3, 2)}, {<< >>}, {}, 0, 0)

NextBuilder == NewResponseData \/ AddCookie \/ BuildResponse

SpecBuilder == InitBuilder /\ [][NextBuilder]_vars

\* the values of the fields of a name, in the order they stand in the message
RECURSIVE FieldValues(_, _)
FieldValues(fields, name) ==
    IF fields = << >> THEN << >>
    ELSE IF FieldKey(Head(fields).name) = FieldKey(name)
         THEN <<Head(fields).value>> \o FieldValues(Tail(fields), name)
         ELSE FieldValues(Tail(fields), name)

\* C24: a response built from n cookies carries n Set-Cookie headers, the
\* i-th holding the full Set-Cookie value of the i-th cookie
C24_OneSetCookiePerCookie ==
    (call.fn = "build_response" /\ ~ret.thrown) =>
        FieldValues(ret.fields, "Set-Cookie")
            = [i \in 1..Len(call.data.cookies) |-> call.data.cookies[i].value]

\* C25: every response build_response produces carries Server: PySpeed/1.0
\* and a Content-Length equal to the length of the body, whatever headers the
\* caller supplied
C25_ServerAndContentLength ==
    (call.fn = "build_response" /\ ~ret.thrown) =>
        /\ FieldValues(ret.fields, "Server") = << <<"PySpeed/1.0">> >>
        /\ FieldValues(ret.fields, "Content-Length")
               = << to_string(Len(ret.body)) >>


\* ---------------------------------------------------------------------------
\* The JSON accelerator (json_accelerator.hpp, json_accelerator.cpp)
\* ---------------------------------------------------------------------------

\* bytes outside printable ASCII, one token each
SOH == "<01>"    \* 0x01, a control character without a short escape
LF == "<0a>"     \* 0x0a, '\n'
E9 == "<e9>"     \* 0xe9, a byte of a character outside ASCII

\* the printable ASCII characters, 0x20 to 0x7e (0x60 as a token)
Ascii ==
    << " ", "!", "\"", "#", "$", "%", "&", "'", "(", ")", "*", "+", ",", "-", ".", "/",
       "0", "1", "2", "3", "4", "5", "6", "7", "8", "9", ":", ";", "<", "=", ">", "?",
       "@", "A", "B", "C", "D", "E", "F", "G", "H", "I", "J", "K", "L", "M", "N", "O",
       "P", "Q", "R", "S", "T", "U", "V", "W", "X", "Y", "Z", "[", "\\", "]", "^", "_",
       "<60>", "a", "b", "c", "d", "e", "f", "g", "h", "i", "j", "k", "l", "m", "n", "o",
       "p", "q", "r", "s", "t", "u", "v", "w", "x", "y", "z", "{", "|", "}", "~" >>

\* the value of the byte c, 0 to 255
Byte(c) ==
    CASE c = SOH    -> 1
      [] c = "<08>" -> 8
      [] c = "<09>" -> 9
      [] c = LF     -> 10
      [] c = "<0c>" -> 12
      [] c = "<0d>" -> 13
      [] c = E9     -> 233
      [] OTHER      -> 31 + (CHOOSE i \in 1..Len(Ascii) : Ascii[i] = c)

\* JsonValue: the alternatives of its variant. A number d is held as the
\* decimal mant / 10^scale with no trailing zero in mant when scale > 0; a
\* JsonObject is the map from its keys to their values.
JsonNull == [type |-> "null"]
JsonBool(b) == [type |-> "bool", b |-> b]
JsonNumber(mant, scale) == [type |-> "number", mant |-> mant, scale |-> scale]
JsonString(s) == [type |-> "string", s |-> s]
JsonArray(items) == [type |-> "array", items |-> items]
JsonObject(members) == [type |-> "object", members |-> members]

\* obj[key] = value on a JsonObject
PutMember(members, key, value) ==
    [k \in (DOMAIN members) \cup {key} |-> IF k = key THEN value ELSE members[k]]

\* JsonParser::Config
ParserConfig(allow_comments, use_simd, max_depth) ==
    [allow_comments        |-> allow_comments,
     allow_trailing_commas |-> FALSE,
     strict_mode           |-> TRUE,
     max_depth             |-> max_depth,
     use_simd              |-> use_simd]

\* what a parsing function hands back: the exception it threw, or its value
\* and the position it advanced ptr to
Thrown(what) == [thrown |-> TRUE, what |-> what]
Parsed(value, ptr) == [thrown |-> FALSE, value |-> value, ptr |-> ptr]

is_whitespace(c) == c \in {" ", "<09>", LF, "<0d>"}

Digits == <<"0", "1", "2", "3", "4", "5", "6", "7", "8", "9">>

is_digit(c) == \E i \in 1..10 : Digits[i] = c

DigitValue(c) == (CHOOSE i \in 1..10 : Digits[i] = c) - 1

RECURSIVE skip_whitespace_simd(_, _)
skip_whitespace_simd(text, ptr) ==
    IF ptr <= Len(text) /\ is_whitespace(text[ptr])
    THEN skip_whitespace_simd(text, ptr + 1)
    ELSE ptr

\* the end of a line comment: the position of the next '\n', or the end
RECURSIVE LineCommentEnd(_, _)
LineCommentEnd(text, ptr) ==
    IF ptr <= Len(text) /\ text[ptr] # LF
    THEN LineCommentEnd(text, ptr + 1)
    ELSE ptr

\* the end of a block comment: past the next "*/", or where the loop gives up
RECURSIVE BlockCommentEnd(_, _)
BlockCommentEnd(text, ptr) ==
    IF ptr + 1 <= Len(text)
    THEN IF text[ptr] = "*" /\ text[ptr + 1] = "/"
         THEN ptr + 2
         ELSE BlockCommentEnd(text, ptr + 1)
    ELSE ptr

RECURSIVE skip_whitespace(_, _, _)
RECURSIVE skip_comments(_, _, _)
skip_whitespace(text, ptr, config) ==
    IF config.use_simd
    THEN skip_whitespace_simd(text, ptr)
    ELSE LET p == skip_whitespace_simd(text, ptr)   \* the same loop, written out
         IN  IF config.allow_comments THEN skip_comments(text, p, config) ELSE p

skip_comments(text, ptr, config) ==
    IF ptr <= Len(text) /\ text[ptr] = "/"
    THEN IF ptr + 1 <= Len(text) /\ text[ptr + 1] = "/"
         THEN skip_comments(text,
                  skip_whitespace(text, LineCommentEnd(text, ptr + 2), config), config)
         ELSE IF ptr + 1 <= Len(text) /\ text[ptr + 1] = "*"
         THEN skip_comments(text,
                  skip_whitespace(text, BlockCommentEnd(text, ptr + 2), config), config)
         ELSE ptr
    ELSE ptr

\* JsonParser::decode_string, on the characters between the quotes
RECURSIVE decode_string(_, _, _)
decode_string(str, ptr, decoded) ==
    IF ptr > Len(str) THEN [thrown |-> FALSE, s |-> decoded]
    ELSE IF str[ptr] # "\\" THEN decode_string(str, ptr + 1, Append(decoded, str[ptr]))
    ELSE IF ptr + 1 > Len(str) THEN Thrown("Unterminated escape sequence")
    ELSE LET c == str[ptr + 1]
         IN  CASE c = "\"" -> decode_string(str, ptr + 2, Append(decoded, "\""))
               [] c = "\\" -> decode_string(str, ptr + 2, Append(decoded, "\\"))
               [] c = "/"  -> decode_string(str, ptr + 2, Append(decoded, "/"))
               [] c = "b"  -> decode_string(str, ptr + 2, Append(decoded, "<08>"))
               [] c = "f"  -> decode_string(str, ptr + 2, Append(decoded, "<0c>"))
               [] c = "n"  -> decode_string(str, ptr + 2, Append(decoded, LF))
               [] c = "r"  -> decode_string(str, ptr + 2, Append(decoded, "<0d>"))
               [] c = "t"  -> decode_string(str, ptr + 2, Append(decoded, "<09>"))
               [] c = "u"  -> IF ptr + 1 + 4 >= Len(str) + 1
                              THEN Thrown("Invalid unicode escape")
                              ELSE decode_string(str, ptr + 6, Append(decoded, "?"))
               [] OTHER    -> Thrown("Invalid escape character")

\* the scan of parse_string for the closing quote
RECURSIVE StringEnd(_, _)
StringEnd(text, ptr) ==
    IF ptr <= Len(text) /\ text[ptr] # "\""
    THEN IF text[ptr] = "\\"
         THEN IF ptr + 1 > Len(text)
              THEN Thrown("Unterminated string escape")
              ELSE StringEnd(text, ptr + 2)
         ELSE StringEnd(text, ptr + 1)
    ELSE [thrown |-> FALSE, ptr |-> ptr]

parse_string(text, ptr) ==
    IF ptr > Len(text) \/ text[ptr] # "\"" THEN Thrown("Expected '\"'")
    ELSE LET close == StringEnd(text, ptr + 1)
         IN  IF close.thrown THEN close
             ELSE IF close.ptr > Len(text) THEN Thrown("Unterminated string")
             ELSE LET str == decode_string(SubSeq(text, ptr + 1, close.ptr - 1), 1, << >>)
                  IN  IF str.thrown THEN str
                      ELSE Parsed(JsonString(str.s), close.ptr + 1)

RECURSIVE DigitsEnd(_, _)
DigitsEnd(text, ptr) ==
    IF ptr <= Len(text) /\ is_digit(text[ptr]) THEN DigitsEnd(text, ptr + 1) ELSE ptr

RECURSIVE DigitsValue(_, _)
DigitsValue(str, acc) ==
    IF str = << >> THEN acc ELSE DigitsValue(Tail(str), 10 * acc + DigitValue(Head(str)))

RECURSIVE Pow10(_)
Pow10(n) == IF n = 0 THEN 1 ELSE 10 * Pow10(n - 1)

\* a decimal without trailing zeros after the point
RECURSIVE Normal(_, _)
Normal(mant, scale) ==
    IF scale > 0 /\ mant % 10 = 0 THEN Normal(mant \div 10, scale - 1)
    ELSE JsonNumber(mant, scale)

\* std::stod on the text parse_number scanned: sign, integer part, decimal
\* part and exponent, every such decimal of the model being exact as a double
stod(str) ==
    LET neg      == str[1] = "-"
        first    == IF neg THEN 2 ELSE 1
        intEnd   == DigitsEnd(str, first)
        hasFrac  == intEnd <= Len(str) /\ str[intEnd] = "."
        fracEnd  == IF hasFrac THEN DigitsEnd(str, intEnd + 1) ELSE intEnd
        fracLen  == IF hasFrac THEN fracEnd - intEnd - 1 ELSE 0
        digits   == SubSeq(str, first, intEnd - 1)
                       \o (IF hasFrac THEN SubSeq(str, intEnd + 1, fracEnd - 1) ELSE << >>)
        hasExp   == fracEnd <= Len(str)
        expNeg   == hasExp /\ str[fracEnd + 1] = "-"
        expFirst == IF hasExp /\ str[fracEnd + 1] \in {"+", "-"}
                    THEN fracEnd + 2 ELSE fracEnd + 1
        exp      == IF hasExp THEN DigitsValue(SubSeq(str, expFirst, Len(str)), 0) ELSE 0
        scale    == IF expNeg THEN fracLen + exp ELSE fracLen - exp
        mag      == DigitsValue(digits, 0)
        mant     == IF neg THEN 0 - mag ELSE mag
    IN  IF scale < 0 THEN JsonNumber(mant * Pow10(0 - scale), 0)
        ELSE Normal(mant, scale)

parse_number(text, ptr) ==
    LET p1 == IF ptr <= Len(text) /\ text[ptr] = "-" THEN ptr + 1 ELSE ptr
    IN  IF p1 > Len(text) \/ ~is_digit(text[p1]) THEN Thrown("Invalid number")
        ELSE LET p2 == IF text[p1] = "0" THEN p1 + 1 ELSE DigitsEnd(text, p1)
                 frac == p2 <= Len(text) /\ text[p2] = "."
             IN  IF frac /\ (p2 + 1 > Len(text) \/ ~is_digit(text[p2 + 1]))
                 THEN Thrown("Invalid decimal number")
                 ELSE LET p3 == IF frac THEN DigitsEnd(text, p2 + 1) ELSE p2
                          hasExp == p3 <= Len(text) /\ text[p3] \in {"e", "E"}
                          p4 == IF hasExp /\ p3 + 1 <= Len(text) /\ text[p3 + 1] \in {"+", "-"}
                                THEN p3 + 2 ELSE p3 + 1
                      IN  IF hasExp /\ (p4 > Len(text) \/ ~is_digit(text[p4]))
                          THEN Thrown("Invalid number exponent")
                          ELSE LET p5 == IF hasExp THEN DigitsEnd(text, p4) ELSE p3
                               IN  Parsed(stod(SubSeq(text, ptr, p5 - 1)), p5)

parse_literal(text, ptr) ==
    IF ptr + 4 <= Len(text) + 1 /\ SubSeq(text, ptr, ptr + 3) = <<"t", "r", "u", "e">>
    THEN Parsed(JsonBool(TRUE), ptr + 4)
    ELSE IF ptr + 5 <= Len(text) + 1
            /\ SubSeq(text, ptr, ptr + 4) = <<"f", "a", "l", "s", "e">>
    THEN Parsed(JsonBool(FALSE), ptr + 5)
    ELSE IF ptr + 4 <= Len(text) + 1 /\ SubSeq(text, ptr, ptr + 3) = <<"n", "u", "l", "l">>
    THEN Parsed(JsonNull, ptr + 4)
    ELSE Thrown("Invalid literal")

RECURSIVE parse_value(_, _, _)
RECURSIVE ObjectMembers(_, _, _, _)
RECURSIVE ArrayItems(_, _, _, _)

\* the while loop of parse_object, after the opening brace
ObjectMembers(text, ptr, obj, config) ==
    IF ptr > Len(text) THEN Parsed(JsonObject(obj), ptr)
    ELSE LET p1 == skip_whitespace(text, ptr, config)
         IN  IF p1 > Len(text) \/ text[p1] # "\"" THEN Thrown("Expected string key")
             ELSE LET key == parse_string(text, p1)
                  IN  IF key.thrown THEN key
                      ELSE LET p2 == skip_whitespace(text, key.ptr, config)
                           IN  IF p2 > Len(text) \/ text[p2] # ":"
                               THEN Thrown("Expected ':'")
                               ELSE LET value == parse_value(text, p2 + 1, config)
                                    IN  IF value.thrown THEN value
                                        ELSE LET members == PutMember(obj, key.value.s,
                                                                      value.value)
                                                 p3 == skip_whitespace(text, value.ptr, config)
                                             IN  IF p3 > Len(text)
                                                 THEN Thrown("Unexpected end of object")
                                                 ELSE IF text[p3] = "}"
                                                 THEN Parsed(JsonObject(members), p3 + 1)
                                                 ELSE IF text[p3] = ","
                                                 THEN ObjectMembers(text, p3 + 1, members, config)
                                                 ELSE Thrown("Expected ',' or '}'")

parse_object(text, ptr, config) ==
    IF ptr > Len(text) \/ text[ptr] # "{" THEN Thrown("Expected '{'")
    ELSE LET p == skip_whitespace(text, ptr + 1, config)
         IN  IF p <= Len(text) /\ text[p] = "}"
             THEN Parsed(JsonObject(<< >>), p + 1)
             ELSE ObjectMembers(text, p, << >>, config)

\* the while loop of parse_array, after the opening bracket
ArrayItems(text, ptr, arr, config) ==
    IF ptr > Len(text) THEN Parsed(JsonArray(arr), ptr)
    ELSE LET value == parse_value(text, ptr, config)
         IN  IF value.thrown THEN value
             ELSE LET items == Append(arr, value.value)
                      p == skip_whitespace(text, value.ptr, config)
                  IN  IF p > Len(text) THEN Thrown("Unexpected end of array")
                      ELSE IF text[p] = "]" THEN Parsed(JsonArray(items), p + 1)
                      ELSE IF text[p] = "," THEN ArrayItems(text, p + 1, items, config)
                      ELSE Thrown("Expected ',' or ']'")

parse_array(text, ptr, config) ==
    IF ptr > Len(text) \/ text[ptr] # "[" THEN Thrown("Expected '['")
    ELSE LET p == skip_whitespace(text, ptr + 1, config)
         IN  IF p <= Len(text) /\ text[p] = "]"
             THEN Parsed(JsonArray(<< >>), p + 1)
             ELSE ArrayItems(text, p, << >>, config)

parse_value(text, ptr0, config) ==
    LET ptr == skip_whitespace(text, ptr0, config)
    IN  IF ptr > Len(text) THEN Thrown("Unexpected end of input")
        ELSE CASE text[ptr] = "{" -> parse_object(text, ptr, config)
               [] text[ptr] = "[" -> parse_array(text, ptr, config)
               [] text[ptr] = "\"" -> parse_string(text, ptr)
               [] text[ptr] \in {"t", "f", "n"} -> parse_literal(text, ptr)
               [] OTHER -> IF text[ptr] = "-" \/ is_digit(text[ptr])
                           THEN parse_number(text, ptr)
                           ELSE Thrown("Unexpected character")

\* JsonParser::parse: the value, or the exception that leaves it
parse(text, config) ==
    LET ptr == skip_whitespace(text, 1, config)
    IN  IF ptr > Len(text) THEN Thrown("Empty JSON document")
        ELSE LET root == parse_value(text, ptr, config)
             IN  IF root.thrown THEN root
                 ELSE IF skip_whitespace(text, root.ptr, config) <= Len(text)
                         /\ config.strict_mode
                 THEN Thrown("Unexpected content after JSON document")
                 ELSE [thrown |-> FALSE, value |-> root.value]


HexDigits == <<"0", "1", "2", "3", "4", "5", "6", "7", "8", "9",
               "a", "b", "c", "d", "e", "f">>

\* the hexadecimal digits of n >= 0
RECURSIVE Hex(_)
Hex(n) ==
    IF n < 16 THEN <<HexDigits[n + 1]>>
    ELSE Hex(n \div 16) \o <<HexDigits[(n % 16) + 1]>>

\* static_cast<int>(c): a byte from 0x80 on is negative where plain char is signed
CharAsInt(c, char_signed) ==
    IF char_signed /\ Byte(c) >= 128 THEN Byte(c) - 256 ELSE Byte(c)

\* oss << std::hex << std::setw(4) << std::setfill('0') << static_cast<int>(c):
\* a negative int is written as the eight digits of its two's complement
HexEscape(c, char_signed) ==
    IF CharAsInt(c, char_signed) < 0
    THEN <<"f", "f", "f", "f", "f", "f">> \o Hex(Byte(c))
    ELSE LET digits == Hex(Byte(c))
         IN  [i \in 1..(4 - Len(digits)) |-> "0"] \o digits

needs_escaping(c, char_signed) ==
    c = "\"" \/ c = "\\" \/ CharAsInt(c, char_signed) < 32

RECURSIVE escape_string(_, _)
escape_string(str, char_signed) ==
    IF str = << >> THEN << >>
    ELSE LET c == Head(str)
             out == IF needs_escaping(c, char_signed)
                    THEN <<"\\">> \o
                         (CASE c = "\""   -> <<"\"">>
                            [] c = "\\"   -> <<"\\">>
                            [] c = "<08>" -> <<"b">>
                            [] c = "<0c>" -> <<"f">>
                            [] c = LF     -> <<"n">>
                            [] c = "<0d>" -> <<"r">>
                            [] c = "<09>" -> <<"t">>
                            [] OTHER      -> <<"u">> \o HexEscape(c, char_signed))
                    ELSE <<c>>
         IN  out \o escape_string(Tail(str), char_signed)

serialize_string(str, char_signed) ==
    <<"\"">> \o escape_string(str, char_signed) \o <<"\"">>

\* the decimal digits of n >= 0
RECURSIVE DecimalDigits(_)
DecimalDigits(n) ==
    IF n < 10 THEN <<Digits[n + 1]>>
    ELSE DecimalDigits(n \div 10) \o <<Digits[(n % 10) + 1]>>

\* serialize_number: std::to_string of the long long for a whole number, else
\* the stream's output at precision 15, which for the decimals of the model is
\* the integer part, the point and the digits after it
serialize_number(num) ==
    LET mag == IF num.mant < 0 THEN 0 - num.mant ELSE num.mant
        sign == IF num.mant < 0 THEN <<"-">> ELSE << >>
    IN  IF num.scale = 0 THEN sign \o DecimalDigits(mag)
        ELSE LET frac == DecimalDigits(mag % Pow10(num.scale))
             IN  sign \o DecimalDigits(mag \div Pow10(num.scale)) \o <<".">>
                      \o [i \in 1..(num.scale - Len(frac)) |-> "0"] \o frac

\* the keys of a JsonObject in the order the range-for of serialize_object
\* meets them: the order the hash table of this run gives, keys the order
\* does not name last
RECURSIVE AnyOrder(_)
AnyOrder(keys) ==
    IF keys = {} THEN << >>
    ELSE LET k == CHOOSE x \in keys : TRUE IN <<k>> \o AnyOrder(keys \ {k})

Iteration(members, order) ==
    LET named == {order[i] : i \in 1..Len(order)}
    IN  SelectSeq(order, LAMBDA k : k \in DOMAIN members)
            \o AnyOrder((DOMAIN members) \ named)

\* JsonSerializer::Config, the fields the serializer reads
SerializerConfig(pretty_print, indent_size) ==
    [pretty_print |-> pretty_print, indent_size |-> indent_size]

\* the configuration of a JsonSerializer nobody configured
DefaultSerializerConfig == SerializerConfig(FALSE, 2)

add_indent(config, depth) == [i \in 1..(depth * config.indent_size) |-> " "]

\* what is written only when config_.pretty_print is set
Pretty(config, text) == IF config.pretty_print THEN text ELSE << >>

RECURSIVE serialize_value(_, _, _, _, _)
RECURSIVE SerializeMembers(_, _, _, _, _, _, _)
RECURSIVE SerializeItems(_, _, _, _, _, _)

SerializeMembers(members, keys, first, order, char_signed, config, depth) ==
    IF keys = << >> THEN << >>
    ELSE (IF first THEN << >> ELSE <<",">> \o Pretty(config, <<LF>>))
             \o Pretty(config, add_indent(config, depth + 1))
             \o serialize_string(Head(keys), char_signed) \o <<":">>
             \o Pretty(config, <<" ">>)
             \o serialize_value(members[Head(keys)], order, char_signed, config, depth + 1)
             \o SerializeMembers(members, Tail(keys), FALSE, order, char_signed,
                                 config, depth)

serialize_object(members, order, char_signed, config, depth) ==
    <<"{">> \o Pretty(config, <<LF>>)
        \o SerializeMembers(members, Iteration(members, order), TRUE,
                            order, char_signed, config, depth)
        \o (IF DOMAIN members # {}
            THEN Pretty(config, <<LF>> \o add_indent(config, depth)) ELSE << >>)
        \o <<"}">>

SerializeItems(arr, i, order, char_signed, config, depth) ==
    IF i > Len(arr) THEN << >>
    ELSE (IF i > 1 THEN <<",">> \o Pretty(config, <<LF>>) ELSE << >>)
             \o Pretty(config, add_indent(config, depth + 1))
             \o serialize_value(arr[i], order, char_signed, config, depth + 1)
             \o SerializeItems(arr, i + 1, order, char_signed, config, depth)

serialize_array(arr, order, char_signed, config, depth) ==
    <<"[">> \o (IF arr # << >> THEN Pretty(config, <<LF>>) ELSE << >>)
        \o SerializeItems(arr, 1, order, char_signed, config, depth)
        \o (IF arr # << >>
            THEN Pretty(config, <<LF>> \o add_indent(config, depth)) ELSE << >>)
        \o <<"]">>

serialize_value(value, order, char_signed, config, depth) ==
    CASE value.type = "null"   -> <<"n", "u", "l", "l">>
      [] value.type = "bool"   -> IF value.b THEN <<"t", "r", "u", "e">>
                                  ELSE <<"f", "a", "l", "s", "e">>
      [] value.type = "number" -> serialize_number(value)
      [] value.type = "string" -> serialize_string(value.s, char_signed)
      [] value.type = "array"  ->
            serialize_array(value.items, order, char_signed, config, depth)
      [] value.type = "object" ->
            serialize_object(value.members, order, char_signed, config, depth)

\* JsonSerializer::serialize of a serializer with the given configuration
serialize_with(value, order, char_signed, config) ==
    serialize_value(value, order, char_signed, config, 0)

\* JsonSerializer::serialize of a serializer nobody configured
serialize(value, order, char_signed) ==
    serialize_with(value, order, char_signed, DefaultSerializerConfig)


\* the default of JsonParser::Config::max_depth
DefaultMaxDepth == 100

\* the max_depth an embedder sets with set_config to limit nesting
LoweredMaxDepth == 2

\* how many times one document goes through the parser: parsed, then its
\* serialization parsed again
MaxRounds == 2

Quoted(s) == <<"\"">> \o s \o <<"\"">>

\* n arrays inside one another
Nest(n) == [i \in 1..n |-> "["] \o [i \in 1..n |-> "]"]

\* {"a": 1, "b": [true, null, "x"]}
Doc_example ==
    <<"{">> \o Quoted(<<"a">>) \o <<":", " ", "1", ",", " ">> \o Quoted(<<"b">>)
        \o <<":", " ", "[", "t", "r", "u", "e", ",", " ", "n", "u", "l", "l", ",", " ">>
        \o Quoted(<<"x">>) \o <<"]", "}">>

\* {"a":1,"b":2}
Doc_ab == <<"{">> \o Quoted(<<"a">>) \o <<":", "1", ",">> \o Quoted(<<"b">>) \o <<":", "2", "}">>

\* {"b":2,"a":1}
Doc_ba == <<"{">> \o Quoted(<<"b">>) \o <<":", "2", ",">> \o Quoted(<<"a">>) \o <<":", "1", "}">>

ScalarDocuments ==
    { <<"n", "u", "l", "l">>, <<"t", "r", "u", "e">>, <<"f", "a", "l", "s", "e">>,
      <<"0">>, <<"1">>, <<"-", "2">>, <<"1", "0">>, <<"1", ".", "5">>,
      <<"-", "0", ".", "2", "5">>, <<"1", ".", "5", "0">>, <<"1", "e", "2">>,
      <<" ", "1", LF>> }

\* strings: plain, with each kind of escape, and with a byte from 0x80 on
StringDocuments ==
    { Quoted(<< >>), Quoted(<<"x">>), Quoted(<<"a", " ", "b">>),
      Quoted(<<"\\", "n">>), Quoted(<<"\\", "\"">>), Quoted(<<"\\", "\\">>),
      Quoted(<<"\\", "/">>), Quoted(<<"\\", "t", "x">>),
      Quoted(<<"\\", "u", "0", "0", "4", "1">>),
      Quoted(<<"\\", "u", "0", "0", "0", "1">>),
      Quoted(<<E9>>), Quoted(<<"x", E9>>) }

ArrayDocuments ==
    { <<"[", "]">>, <<"[", "1", "]">>, <<"[", "1", ",", "2", "]">>,
      <<"[", "[", "1", "]", ",", "[", "]", "]">>,
      <<"[", " ", "1", " ", ",", " ", "2", " ", "]">>,
      <<"[">> \o Quoted(<<"x">>) \o <<",", "n", "u", "l", "l", "]">> }

ObjectDocuments ==
    { <<"{", "}">>, Doc_example, Doc_ab, Doc_ba,
      <<"{">> \o Quoted(<<"a">>) \o <<":", "1", "}">>,
      <<"{">> \o Quoted(<<"a">>) \o <<":">> \o Doc_ab \o <<"}">>,
      <<"[">> \o Doc_ab \o <<",">> \o Doc_ba \o <<"]">>,
      <<"[", "{", "}", "]">>,
      <<"{">> \o Quoted(<<"a">>) \o <<":", "{", "}", "}">>,
      <<"{">> \o Quoted(<<"a">>) \o <<":", "[", "]", "}">> }

\* documents that are valid JSON
ValidDocuments == ScalarDocuments \cup StringDocuments \cup ArrayDocuments \cup ObjectDocuments

\* documents that are not valid JSON: a raw control character in a string, a
\* repeated key aside, truncated and malformed text, the empty document
InvalidDocuments ==
    { Quoted(<<SOH>>), Quoted(<<"x", LF>>),
      << >>, <<" ">>, <<"[", "1", ",">>, <<"{">>, <<"[">>,
      <<"[", "1", " ", "2", "]">>, <<"t", "r", "u">>, <<"1", " ", "x">>,
      <<"-">>, <<"1", ".">>, Quoted(<<"\\", "u", "0", "0", "1">>),
      Quoted(<<"\\", "q">>), <<"\"", "x">>,
      <<"{">> \o Quoted(<<"a">>) \o <<"1", "}">>,
      <<"{">> \o Quoted(<<"a">>) \o <<":", "1", ",">> }

\* a line comment and a block comment
LineComment == <<"/", "/", "c", LF>>
BlockComment == <<"/", "*", "c", "*", "/">>

\* valid documents with comments where whitespace may stand
CommentedDocuments ==
    UNION { { c \o <<"1">>,
              <<"1">> \o c,
              <<"[">> \o c \o <<"1", ",", "2", "]">>,
              <<"[", "1">> \o c \o <<",", "2", "]">>,
              <<"[", "1", ",">> \o c \o <<"2", "]">>,
              <<"[", "1", ",", "2">> \o c \o <<"]">>,
              <<"[", "1", ",", " ">> \o c \o <<" ", "2", "]">>,
              <<"{">> \o Quoted(<<"a">>) \o c \o <<":">> \o c \o <<"1", "}">>,
              c \o c \o <<"1">> }
            : c \in {LineComment, BlockComment} }

\* documents nested as deep as the lowered max_depth allows, and one level deeper
DeepDocuments == { Nest(LoweredMaxDepth), Nest(LoweredMaxDepth + 1) }

Documents ==
    ValidDocuments \cup InvalidDocuments \cup CommentedDocuments \cup DeepDocuments

\* the configurations set_config is given: the default, a lowered max_depth,
\* comments allowed, and comments allowed with use_simd off
ParserConfigs ==
    { ParserConfig(FALSE, TRUE, DefaultMaxDepth),
      ParserConfig(FALSE, TRUE, LoweredMaxDepth),
      ParserConfig(TRUE, TRUE, DefaultMaxDepth),
      ParserConfig(TRUE, FALSE, DefaultMaxDepth) }

\* the keys of the documents, and the orders a hash table may keep them in
JsonKeys == { <<"a">>, <<"b">> }

KeyOrders == { <<a, b>> : a, b \in JsonKeys } \ { <<k, k>> : k \in JsonKeys }

\* one call of JsonParser::parse
CallParse(text, config, round, source, char_signed) ==
    LET root == parse(text, config)
    IN  /\ call' = [fn |-> "JsonParser::parse", text |-> text, config |-> config,
                    round |-> round, source |-> source, char_signed |-> char_signed]
        /\ ret' = IF root.thrown
                  THEN [fn |-> "JsonParser::parse", thrown |-> TRUE, what |-> root.what]
                  ELSE [fn |-> "JsonParser::parse", thrown |-> FALSE, value |-> root.value]
        /\ parser_stats_' =
              IF root.thrown
              THEN [parser_stats_ EXCEPT !.parse_errors = @ + 1]
              ELSE [parser_stats_ EXCEPT !.documents_parsed = @ + 1]

\* a document is parsed, by a build where plain char is signed or unsigned
JsonParse ==
    /\ UNCHANGED <<staticVars, sessionVars, parser_routes_>>
    /\ call.fn = "none"
    /\ \E text \in Documents, config \in ParserConfigs, char_signed \in BOOLEAN :
          CallParse(text, config, 1, text, char_signed)

\* the value the parser returned is serialized
JsonSerialize ==
    /\ UNCHANGED <<staticVars, sessionVars, parser_routes_, parser_stats_>>
    /\ ret.fn = "JsonParser::parse"
    /\ ~ret.thrown
    /\ \E order \in KeyOrders :
          /\ call' = [fn |-> "JsonSerializer::serialize", value |-> ret.value,
                      config |-> call.config, round |-> call.round,
                      source |-> call.source, char_signed |-> call.char_signed]
          /\ ret' = [fn |-> "JsonSerializer::serialize",
                     output |-> serialize(ret.value, order, call.char_signed)]

\* the serializer's output is parsed again
JsonReparse ==
    /\ UNCHANGED <<staticVars, sessionVars, parser_routes_>>
    /\ ret.fn = "JsonSerializer::serialize"
    /\ call.round < MaxRounds
    /\ CallParse(ret.output, call.config, call.round + 1, call.source, call.char_signed)

InitJson ==
    /\ NoServer
    /\ NoCall
    /\ InitStatic("json", {Config(Root_s, 3, 2)}, {<< >>}, {}, 0, 0)

NextJson == JsonParse \/ JsonSerialize \/ JsonReparse

SpecJson == InitJson /\ [][NextJson]_vars


\* C26: parsing the text serialize wrote for a value the parser produced gives
\* that value back: the second parse throws nothing and its value equals the
\* value that was serialized
C26_ParseInvertsSerialize ==
    [][ (call.fn = "JsonSerializer::serialize" /\ call'.fn = "JsonParser::parse")
            => (~ret'.thrown /\ ret'.value = call.value) ]_vars


\* the valid documents written without any whitespace
CompactDocuments ==
    { d \in ValidDocuments : \A i \in 1..Len(d) : ~is_whitespace(d[i]) }

\* C27: for a valid compact document s, the text t = serialize(parse(s)) is a
\* fixed point: parsing t succeeds and serializing the result gives t again
C27_SerializeIdempotent ==
    [][ /\ (call'.fn = "JsonParser::parse" /\ call'.round = 2
               /\ call'.source \in CompactDocuments) => ~ret'.thrown
        /\ (call.fn = "JsonParser::parse" /\ call.round = 2
               /\ call.source \in CompactDocuments
               /\ call'.fn = "JsonSerializer::serialize") => ret'.output = call.text ]_vars


\* a document's text without its whitespace: for the object documents of the
\* model, which have no escapes and no repeated key, their compact
\* serialization with the members in document order
StripWhitespace(text) == SelectSeq(text, LAMBDA c : ~is_whitespace(c))

\* C28: serializing a parsed object writes its members in document order:
\* the output for an object document is the document without its whitespace,
\* {"a":1,"b":[true,null,"x"]} for {"a": 1, "b": [true, null, "x"]}
C28_MembersInDocumentOrder ==
    [][ (call.fn = "JsonParser::parse" /\ call.round = 1
            /\ call.source \in ObjectDocuments
            /\ call'.fn = "JsonSerializer::serialize")
            => ret'.output = StripWhitespace(call.source) ]_vars


\* the deepest nesting of arrays and objects in a document's text, brackets
\* inside strings not counted
RECURSIVE MaxNesting(_, _, _, _, _)
MaxNesting(text, i, in_string, depth, deepest) ==
    IF i > Len(text) THEN deepest
    ELSE IF in_string
    THEN IF text[i] = "\\" THEN MaxNesting(text, i + 2, TRUE, depth, deepest)
         ELSE MaxNesting(text, i + 1, text[i] # "\"", depth, deepest)
    ELSE IF text[i] = "\"" THEN MaxNesting(text, i + 1, TRUE, depth, deepest)
    ELSE IF text[i] \in {"[", "{"}
    THEN MaxNesting(text, i + 1, FALSE, depth + 1,
                    IF depth + 1 > deepest THEN depth + 1 ELSE deepest)
    ELSE IF text[i] \in {"]", "}"} THEN MaxNesting(text, i + 1, FALSE, depth - 1, deepest)
    ELSE MaxNesting(text, i + 1, FALSE, depth, deepest)

NestingDepth(text) == MaxNesting(text, 1, FALSE, 0, 0)

\* C29: parsing a document nested deeper than config_.max_depth throws, and
\* the call is counted in parse_errors; no value is returned
C29_DepthLimited ==
    [][ (call'.fn = "JsonParser::parse" /\ call' # call
            /\ NestingDepth(call'.text) > call'.config.max_depth)
            => (ret'.thrown /\ parser_stats_'.parse_errors = parser_stats_.parse_errors + 1) ]_vars


\* a document's text with its comments removed, comment openers inside
\* strings left alone
RECURSIVE StripComments(_, _, _)
StripComments(text, i, in_string) ==
    IF i > Len(text) THEN << >>
    ELSE IF in_string
    THEN IF text[i] = "\\" /\ i < Len(text)
         THEN <<text[i], text[i + 1]>> \o StripComments(text, i + 2, TRUE)
         ELSE <<text[i]>> \o StripComments(text, i + 1, text[i] # "\"")
    ELSE IF text[i] = "\"" THEN <<text[i]>> \o StripComments(text, i + 1, TRUE)
    ELSE IF text[i] = "/" /\ i < Len(text) /\ text[i + 1] = "/"
    THEN StripComments(text, LineCommentEnd(text, i + 2), FALSE)
    ELSE IF text[i] = "/" /\ i < Len(text) /\ text[i + 1] = "*"
    THEN StripComments(text, BlockCommentEnd(text, i + 2), FALSE)
    ELSE <<text[i]>> \o StripComments(text, i + 1, FALSE)

\* allow_comments set, every other setting at its default
CommentsAllowed == ParserConfig(TRUE, TRUE, DefaultMaxDepth)

\* C30: with allow_comments set and the other settings at their defaults, a
\* document with line or block comments where whitespace may stand is parsed
\* without an exception, to the value of the document without the comments
C30_CommentsSkipped ==
    (call.fn = "JsonParser::parse" /\ call.round = 1
        /\ call.config = CommentsAllowed /\ call.text \in CommentedDocuments)
        => /\ ~ret.thrown
           /\ ret.value = parse(StripComments(call.text, 1, FALSE), call.config).value


\* the entries evict_lru_entries erased before it erased g: those that sort
\* before g by (last_accessed, path)
ErasedBefore(ev, g) ==
    { h \in ev.gone : \/ h.last_accessed < g.last_accessed
                      \/ h.last_accessed = g.last_accessed /\ StrLess(h.path, g.path) }

\* C31: eviction erases entries in last_accessed order and only while
\* current_cache_size_ + incoming size is above max_cache_bytes: when an entry
\* was erased, the inequality did not yet hold after the erasures before it
C31_EvictsOnlyUntilRoom ==
    \A t \in Threads :
        pc[t] = "respond" /\ loc[t].evict.short =>
            LET ev == loc[t].evict
            IN  /\ EvictedOldestFirst(ev)
                /\ \A g \in ev.gone :
                      ev.size - SumFileSize(ErasedBefore(ev, g)) + ev.needed
                          > config_.max_cache_size_mb * 1024 * 1024


\* the threads inside a lookup of the index: between the shared lock of
\* get_cached_file and its release
Looking == { t \in Threads : pc[t] = "find" }

\* the threads inside a mutation of the index or of current_cache_size_:
\* between an exclusive lock and its release
Mutating == { t \in Threads : pc[t] \in {"erase", "insert"} }

\* C32: a lookup runs while cache_mutex_ is held, a mutation while it is held
\* exclusively by the mutating thread; two threads never mutate at once, and
\* none mutates while another looks up
C32_IndexAccessUnderLock ==
    /\ \A t \in Looking : cache_mutex_.readers > 0 \/ cache_mutex_.writer # 0
    /\ \A t \in Mutating : cache_mutex_.writer = t
    /\ Cardinality(Mutating) <= 1
    /\ Mutating # {} => Looking = {}


\* ---------------------------------------------------------------------------
\* resolve_file_path, with the loop over routes_ written out
\* ---------------------------------------------------------------------------

MaxResolvePathLen == 6

\* the orders in which a range-for may visit the elements of a hash table
RECURSIVE Orderings(_)
Orderings(S) ==
    IF S = {} THEN { << >> }
    ELSE UNION { { <<x>> \o o : o \in Orderings(S \ {x}) } : x \in S }

\* a matching route replaces the match so far whatever its length
RECURSIVE MatchLoop_LastMatch(_, _, _, _)
MatchLoop_LastMatch(order, routes, request_path, match) ==
    IF order = << >> THEN match
    ELSE LET route_path == Head(order)
         IN  IF starts_with(request_path, route_path) /\ Len(route_path) > 0
             THEN MatchLoop_LastMatch(Tail(order), routes, request_path,
                      [longest_match |-> route_path, local_root |-> routes[route_path]])
             ELSE MatchLoop_LastMatch(Tail(order), routes, request_path, match)

\* the loop of resolve_file_path over routes_, visited in the given order
RECURSIVE MatchLoop(_, _, _, _)
MatchLoop(order, routes, request_path, match) ==
    IF order = << >> THEN match
    ELSE LET route_path == Head(order)
         IN  IF starts_with(request_path, route_path)
                /\ Len(route_path) > Len(match.longest_match)
             THEN MatchLoop(Tail(order), routes, request_path,
                      [longest_match |-> route_path, local_root |-> routes[route_path]])
             ELSE MatchLoop(Tail(order), routes, request_path, match)

\* resolve_file_path with routes_ visited in the given order: the match, the
\* relative path and the file path, or the std::out_of_range of substr
ResolveInOrder(order, cfg, routes, request_path) ==
    LET m     == MatchLoop(order, routes, request_path,
                           [longest_match |-> << >>, local_root |-> << >>])
        match == IF m.longest_match = << >>
                 THEN [longest_match |-> <<"/">>, local_root |-> cfg.root_directory]
                 ELSE m
    IN  IF Len(request_path) < Len(match.longest_match)
        THEN [fn |-> "resolve_file_path", thrown |-> TRUE]
        ELSE LET rel == SubSeq(request_path, Len(match.longest_match) + 1,
                               Len(request_path))
                 relative_path == IF rel = << >> \/ rel = <<"/">>
                                  THEN <<"/", "i", "n", "d", "e", "x", ".", "h", "t", "m", "l">>
                                  ELSE rel
                 file_path == normalize_path(match.local_root \o relative_path)
             IN  [fn |-> "resolve_file_path", thrown |-> FALSE,
                  longest_match |-> match.longest_match,
                  local_root |-> match.local_root,
                  relative_path |-> relative_path,
                  file_path |-> IF is_safe_path(file_path) THEN file_path ELSE << >>]

\* the route tables add_route has built: one route, nested routes, a route
\* that is a prefix of another's first name, and routes under the empty URL path
ResolveTables ==
    { (Route_s :> Root_a),
      (Route_s :> Root_a) @@ (Route_ss :> Root_b),
      (Route_s :> Root_a) @@ (Route_static :> Root_static),
      (<< >> :> Root_b),
      (<< >> :> Root_b) @@ (Route_s :> Root_a),
      << >> }

ResolvePaths ==
    UNION { [1..n -> {"/", "s"}] : n \in 0..MaxResolvePathLen }
        \cup { Route_static \o <<"/", "s">> }

\* one call of resolve_file_path
ResolveFilePath ==
    /\ UNCHANGED <<staticVars, sessionVars, parser_routes_, parser_stats_>>
    /\ call.fn = "none"
    /\ \E request_path \in ResolvePaths, order \in Orderings(DOMAIN routes_) :
          /\ call' = [fn |-> "resolve_file_path", request_path |-> request_path,
                      order |-> order]
          /\ ret' = ResolveInOrder(order, config_, routes_, request_path)

InitResolve ==
    /\ NoServer
    /\ NoCall
    /\ InitStatic("resolve", {Config(Root_s, 3, 2)}, ResolveTables, {}, 0, 0)

NextResolve == ResolveFilePath

SpecResolve == InitResolve /\ [][NextResolve]_vars

\* the registered URL paths that are a prefix of the request path
PrefixRoutes(request_path) ==
    { r \in DOMAIN routes_ : starts_with(request_path, r) }

\* the answer for the route r: its root, and the request path less its first
\* Len(r) characters, /index.html standing for nothing and for "/"
AnswersFor(r, request_path) ==
    LET rest == SubSeq(request_path, Len(r) + 1, Len(request_path))
    IN  /\ ~ret.thrown
        /\ ret.longest_match = r
        /\ ret.local_root = routes_[r]
        /\ ret.relative_path = IF rest = << >> \/ rest = <<"/">>
                               THEN <<"/", "i", "n", "d", "e", "x", ".", "h", "t", "m", "l">>
                               ELSE rest

TruncatedDocuments ==
    { <<"[">>, <<"{">>, <<"[", "1", ",">>,
      <<"{">> \o Quoted(<<"a">>) \o <<":", "1", ",">> }

\* C34: parse rejects an input that is not a complete JSON document: for each
\* of the truncated documents [, {, [1, and {"a":1, the call throws and no
\* value is returned
C34_TruncatedDocumentRejected ==
    (call.fn = "JsonParser::parse" /\ call.text \in TruncatedDocuments) => ret.thrown


\* ---------------------------------------------------------------------------
\* a serializer configured with set_config
\* ---------------------------------------------------------------------------

\* the indent_size values an embedder sets besides the default
MaxIndentSize == 2

SerializerConfigs ==
    { SerializerConfig(pretty_print, indent_size) :
          pretty_print \in BOOLEAN, indent_size \in 0..MaxIndentSize }

\* the value the parser returned is serialized by a configured serializer
JsonSerializeConfigured ==
    /\ UNCHANGED <<staticVars, sessionVars, parser_routes_, parser_stats_>>
    /\ ret.fn = "JsonParser::parse"
    /\ ~ret.thrown
    /\ \E order \in KeyOrders, config \in SerializerConfigs :
          /\ call' = [fn |-> "JsonSerializer::serialize", value |-> ret.value,
                      serializer_config |-> config, source |-> call.source,
                      char_signed |-> call.char_signed]
          /\ ret' = [fn |-> "JsonSerializer::serialize",
                     output |-> serialize_with(ret.value, order, call.char_signed, config)]

NextPretty == JsonParse \/ JsonSerializeConfigured

SpecPretty == InitJson /\ [][NextPretty]_vars

\* the position of the first character at or after i that is not a space
RECURSIVE SkipSpaces(_, _)
SkipSpaces(text, i) ==
    IF i <= Len(text) /\ text[i] = " " THEN SkipSpaces(text, i + 1) ELSE i

Closer(c) == IF c = "{" THEN "}" ELSE "]"

\* an opener outside strings at or after i is followed by a newline, spaces
\* and its own closer: a line break inside an empty container
RECURSIVE BreaksEmptyContainer(_, _, _)
BreaksEmptyContainer(text, i, in_string) ==
    IF i > Len(text) THEN FALSE
    ELSE IF in_string
    THEN IF text[i] = "\\" THEN BreaksEmptyContainer(text, i + 2, TRUE)
         ELSE BreaksEmptyContainer(text, i + 1, text[i] # "\"")
    ELSE IF text[i] = "\"" THEN BreaksEmptyContainer(text, i + 1, TRUE)
    ELSE IF text[i] \in {"{", "["} /\ i < Len(text) /\ text[i + 1] = LF
    THEN LET j == SkipSpaces(text, i + 2)
         IN  \/ j <= Len(text) /\ text[j] = Closer(text[i])
             \/ BreaksEmptyContainer(text, i + 1, FALSE)
    ELSE BreaksEmptyContainer(text, i + 1, FALSE)

\* C35: with pretty_print set, a newline follows a structural opener only when
\* the container is not empty: the empty object is written {} and the empty
\* array [], alone and inside other containers
C35_EmptyContainersOnOneLine ==
    (call.fn = "JsonSerializer::serialize" /\ call.serializer_config.pretty_print) =>
        /\ call.value = JsonArray(<< >>) => ret.output = <<"[", "]">>
        /\ (call.value.type = "object" /\ DOMAIN call.value.members = {})
               => ret.output = <<"{", "}">>
        /\ ~BreaksEmptyContainer(ret.output, 1, FALSE)

\* C35 for arrays: with pretty_print set, the empty array is written [] and
\* no opening bracket is followed by a line break and its closing bracket
C35_EmptyArrayOnOneLine ==
    (call.fn = "JsonSerializer::serialize" /\ call.serializer_config.pretty_print) =>
        /\ call.value = JsonArray(<< >>) => ret.output = <<"[", "]">>
        /\ \A i \in 1..Len(ret.output) :
              (ret.output[i] = "[" /\ i < Len(ret.output) /\ ret.output[i + 1] = LF)
                  => ret.output[SkipSpaces(ret.output, i + 2)] # "]"


\* C37: no thread releases cache_mutex_ in a mode it does not hold, and each
\* lock acquired in get_cached_file is released exactly once: the count of
\* shared holders goes down only by one, in a step of a thread that holds the
\* mutex shared and leaves its lookup; the exclusive hold ends only in a step
\* of its holder; a thread that has left get_cached_file holds nothing
C37_ReleasesOnlyHeldLocks ==
    [][ /\ cache_mutex_'.readers < cache_mutex_.readers =>
              /\ cache_mutex_'.readers = cache_mutex_.readers - 1
              /\ \E t \in Threads : pc[t] = "find" /\ pc'[t] # "find"
        /\ (cache_mutex_.writer # 0 /\ cache_mutex_'.writer # cache_mutex_.writer) =>
              /\ cache_mutex_'.writer = 0
              /\ pc[cache_mutex_.writer] \in {"erase", "insert"}
              /\ pc'[cache_mutex_.writer] \notin {"erase", "insert"}
        /\ cache_mutex_'.readers = Cardinality({ t \in Threads : pc'[t] = "find" }) ]_vars


\* C38: when sessions find the same stale entry, its file_size is subtracted
\* once: each removal on the stale path erases the stale entry it found, which
\* is still indexed under the path (never an entry inserted since), and
\* subtracts no more than current_cache_size_ holds
C38_StaleEntryRemovedOnce ==
    [][ \A t \in Threads :
            (pc[t] = "erase" /\ pc'[t] = "stale_return") =>
                /\ loc[t].file_path \in DOMAIN cache_
                /\ cache_[loc[t].file_path] = loc[t].entry
                /\ current_cache_size_ >= entries[loc[t].entry].file_size
                /\ current_cache_size_' =
                       current_cache_size_ - entries[loc[t].entry].file_size ]_vars


\* C39: for every request read successfully on a session, exactly one
\* response write is started before the next read: the on_read of a
\* successful read leaves one async_write outstanding, and a do_read after
\* the first follows a request for which async_write was called once
C39_OneWritePerRequest ==
    [][ /\ (session.pc = "reading" /\ session'.read_ec = "ok") =>
              /\ session'.pc = "writing"
              /\ session'.writes = 1
        /\ (session.reads > 0 /\ session'.reads = session.reads + 1) =>
              /\ session.pc = "writing"
              /\ session.read_ec = "ok"
              /\ session.writes = 1 ]_vars

\* the second request of a connection was read and the request handler
\* started the write of its response; a static request was answered before
C39_Witness ==
    /\ session.pc = "writing"
    /\ session.reads = 2
    /\ session.writes = 1
    /\ session.invoked = "dynamic"
    /\ session.callback = "response"
    /\ session.answered.invoked \in {"static", "dynamic"}


\* ---------------------------------------------------------------------------
\* HttpServer::start, HttpServer::stop and the accept loop
\* ---------------------------------------------------------------------------

\* how many times start() and stop() are called
MaxCalls == 4

\* how many async_accept operations are started
MaxAccepts == 4

CallNumber == IF call.fn = "none" THEN 0 ELSE call.n

\* HttpServer::start.  open() throws on an acceptor that is already open, and
\* bind() throws when the address is taken: the catch block clears running_
\* and rethrows, the acceptor left as it is.  A thread whose ioc_.run() finds
\* ioc_ stopped returns from it at once.
start(s, bind_ok) ==
    IF s.running_ THEN [server |-> s, thrown |-> FALSE]
    ELSE IF s.acceptor_ # "closed"
    THEN [server |-> [s EXCEPT !.running_ = FALSE], thrown |-> TRUE]
    ELSE IF ~bind_ok
    THEN [server |-> [s EXCEPT !.acceptor_ = "open", !.running_ = FALSE],
          thrown |-> TRUE]
    ELSE [server |-> [s EXCEPT !.acceptor_ = "listening",
                               !.running_ = TRUE,
                               !.pending = @ + 1,
                               !.armed = @ + 1,
                               !.threads_ = @ + ServerThreads,
                               !.worker = [w \in Workers |->
                                              IF s.stopped THEN "exited" ELSE "run"]],
          thrown |-> FALSE]

\* the embedder calls start()
ServerStart ==
    /\ UNCHANGED <<staticVars, parser_routes_, parser_stats_>>
    /\ server.stop = "none"
    /\ CallNumber < MaxCalls
    /\ \E bind_ok \in BOOLEAN :
          /\ server' = start(server, bind_ok).server
          /\ ret' = [fn |-> "HttpServer::start", n |-> CallNumber + 1,
                     thrown |-> start(server, bind_ok).thrown]
    /\ call' = [fn |-> "HttpServer::start", n |-> CallNumber + 1]
    /\ UNCHANGED <<static_paths_, request_handler_, python_handler_, session, server_stats>>

\* a connection arrives, or accept fails, while a worker runs the reactor:
\* the outstanding async_accept completes and its on_accept is queued
AcceptCompletes ==
    /\ UNCHANGED <<staticVars, libVars>>
    /\ server.pending > 0
    /\ server.acceptor_ = "listening"
    /\ ~server.stopped
    /\ \E w \in Workers : server.worker[w] # "exited"
    /\ server.armed < MaxAccepts
    /\ \E ec \in {"ok", "error"} :
          server' = [server EXCEPT !.pending = @ - 1, !.ready = Append(@, ec)]
    /\ UNCHANGED <<static_paths_, request_handler_, python_handler_, session, server_stats>>

\* on_accept in a worker thread, up to and with running_.load()
OnAccept(w) ==
    /\ UNCHANGED <<staticVars, libVars>>
    /\ server.worker[w] = "run"
    /\ ~server.stopped
    /\ server.ready # << >>
    /\ LET ec == Head(server.ready)
       IN  /\ server' = [server EXCEPT
                  !.ready = Tail(@),
                  !.accepted = IF ec = "ok" THEN @ + 1 ELSE @,
                  !.worker[w] = IF server.running_ THEN "do_accept" ELSE "run"]
           /\ server_stats' = IF ec \in {"ok", "operation_aborted"} THEN server_stats
                              ELSE [server_stats EXCEPT !.errors = @ + 1]
    /\ UNCHANGED <<static_paths_, request_handler_, python_handler_, session>>

\* do_accept at the end of on_accept: async_accept on a closed acceptor
\* completes at once with bad_descriptor
DoAccept(w) ==
    /\ UNCHANGED <<staticVars, libVars>>
    /\ server.worker[w] = "do_accept"
    /\ server' = IF server.acceptor_ = "listening"
                 THEN [server EXCEPT !.pending = @ + 1, !.armed = @ + 1,
                                     !.worker[w] = "run"]
                 ELSE [server EXCEPT !.ready = Append(@, "bad_descriptor"),
                                     !.armed = @ + 1, !.worker[w] = "run"]
    /\ UNCHANGED <<static_paths_, request_handler_, python_handler_, session, server_stats>>

\* the embedder calls stop(): the early return, or running_.store(false) and
\* acceptor_.close(), which cancels the outstanding accept
StopBegin ==
    /\ UNCHANGED <<staticVars, parser_routes_, parser_stats_>>
    /\ server.stop = "none"
    /\ CallNumber < MaxCalls
    /\ call' = [fn |-> "HttpServer::stop", n |-> CallNumber + 1]
    /\ IF ~server.running_
       THEN /\ server' = server
            /\ ret' = [fn |-> "HttpServer::stop", n |-> CallNumber + 1, thrown |-> FALSE]
       ELSE /\ server' = [server EXCEPT
                   !.running_ = FALSE,
                   !.acceptor_ = "closed",
                   !.ready = @ \o [i \in 1..server.pending |-> "operation_aborted"],
                   !.pending = 0,
                   !.stop = "closed"]
            /\ ret' = ret
    /\ UNCHANGED <<static_paths_, request_handler_, python_handler_, session, server_stats>>

\* stop(): ioc_.stop()
StopIoc ==
    /\ UNCHANGED <<staticVars, libVars>>
    /\ server.stop = "closed"
    /\ server' = [server EXCEPT !.stopped = TRUE, !.stop = "join"]
    /\ UNCHANGED <<static_paths_, request_handler_, python_handler_, session, server_stats>>

\* stop(): the joins, which wait for the handlers in progress, threads_.clear()
\* and the return
StopJoin ==
    /\ UNCHANGED <<staticVars, parser_routes_, parser_stats_, call>>
    /\ server.stop = "join"
    /\ \A w \in Workers : server.worker[w] # "do_accept"
    /\ server' = [server EXCEPT !.worker = [w \in Workers |-> "exited"],
                                !.threads_ = 0, !.stop = "none"]
    /\ ret' = [fn |-> "HttpServer::stop", n |-> call.n, thrown |-> FALSE]
    /\ UNCHANGED <<static_paths_, request_handler_, python_handler_, session, server_stats>>

InitServer ==
    /\ NoServer
    /\ NoCall
    /\ InitStatic("server", {Config(Root_s, 3, 2)}, {<< >>}, {}, 0, 0)

NextServer ==
    \/ ServerStart
    \/ AcceptCompletes
    \/ \E w \in Workers : OnAccept(w) \/ DoAccept(w)
    \/ StopBegin
    \/ StopIoc
    \/ StopJoin

SpecServer == InitServer /\ [][NextServer]_vars

\* C36: while the server is running, every completion of an accept, success
\* or failure, is followed by a new pending accept: when on_accept returns
\* and running_ is set, an accept is pending; and once stop() has cleared
\* running_, no further accept is armed
C36_AcceptRearmedOnlyWhileRunning ==
    [][ /\ \A w \in Workers :
              (server.worker[w] = "do_accept" /\ server'.worker[w] = "run"
                   /\ server'.running_) => server'.pending >= 1
        /\ server'.armed > server.armed => server'.running_ ]_vars

\* start() has made the server fully running
FullyRunning(s) ==
    /\ s.running_
    /\ s.pending >= 1
    /\ s.threads_ = ServerThreads
    /\ \A w \in Workers : s.worker[w] # "exited"

\* C40: start() on a running server and stop() on a stopped server change
\* nothing, and a start() that returns normally on a stopped server, the
\* first one and one after start(); stop(), leaves the server fully running:
\* running_ set, an accept pending, the worker threads inside ioc_.run()
C40_StartStopStartRuns ==
    [][ /\ (call'.fn = "HttpServer::start" /\ call' # call /\ server.running_) =>
              server' = server
        /\ (call'.fn = "HttpServer::stop" /\ call' # call /\ ~server.running_) =>
              server' = server
        /\ (call'.fn = "HttpServer::start" /\ call' # call /\ ~server.running_
                /\ ~ret'.thrown) => FullyRunning(server') ]_vars

=============================================================================
